---- MODULE Spec2Model ----
(***************************************************************************)
(* Nodex workflow builder: the canvas state machine of App.tsx, the        *)
(* layout solver (findFreePosition, arrangeNodesIntelligently), the        *)
(* WorkflowCanvas editor, the n8n schema translator and the compliance     *)
(* enforcer.                                                               *)
(*                                                                         *)
(* Coordinates are integers in thousandths of a pixel, so that the spiral  *)
(* scan's trigonometric offsets keep three decimals; every pixel constant  *)
(* of the source appears multiplied by 1000.                               *)
(***************************************************************************)
EXTENDS Integers, Sequences, FiniteSets, TLC

VARIABLES
    nodes,              \* App: useNodesState, a sequence of node records
    edges,              \* App: useEdgesState, a set of [source, target] records
    selectedNodes,      \* App: ids reported by onSelectionChange
    allPositions,       \* App: allPositions.current (ref)
    pendingPositions,   \* App: pendingPositions.current (ref)
    now,                \* Date.now(), a clock that may stand still between calls
    lastOp,             \* the handler that ran last, and what it returned
    selectedNode,       \* WorkflowCanvas: the node object kept by onNodeClick
    contextMenu,        \* WorkflowCanvas: contextMenu.show and contextMenu.node
    showNodeDetails,    \* WorkflowCanvas: the details panel is open
    ws,                 \* WorkflowCanvas: the socket of the effect, wsConnected, agentStatus
    flowChange,         \* WorkflowCanvas: the onFlowChange prop and its last arguments
    showEditModal,      \* App: the edit modal is open
    editingNode,        \* App: the node the edit modal works on
    saveTimer,          \* App: the timeout of the autosave effect is pending
    localStorage,       \* the item 'nodex-workflow'
    processing,         \* App: isProcessing, workflowId and the request in flight
    poll                \* OpenHandsClient.waitForCompletion: attempts and position

appVars == <<selectedNodes, allPositions, pendingPositions>>
canvasVars == <<selectedNode, contextMenu, showNodeDetails>>
sessionVars == <<ws, flowChange>>
modalVars == <<showEditModal, editingNode>>
saveVars == <<modalVars, saveTimer, localStorage>>
requestVars == <<processing, poll>>
sideVars == <<sessionVars, saveVars, requestVars>>
vars == <<nodes, edges, now, lastOp, appVars, canvasVars, sideVars>>

----------------------------------------------------------------------------
(* Bounds *)

MaxArrange == 6         \* largest node list handed to a full rearrangement
MaxNodes == 2           \* node-creating handlers stop at this canvas size
MaxTime == 1            \* last millisecond of the clock
MaxRandom == 2          \* distinct values of a Math.random() id suffix
MaxEdges == 1           \* onConnect stops at this many edges
MaxPlaced == 2          \* placement handlers run on one canvas
MaxCopyDepth == 1       \* duplicateNode stops at copies of this depth
MaxGraph == 3           \* largest node list handed to the translator
MaxConn == 2            \* largest edge list handed to the translator
MaxDeploy == 2          \* largest graph handed to convertToN8n

----------------------------------------------------------------------------
(* Generic helpers *)

Max2(a, b) == IF a >= b THEN a ELSE b
Min2(a, b) == IF a <= b THEN a ELSE b

\* Math.ceil(Math.sqrt(n)) for a natural number n
CeilSqrt(n) == CHOOSE k \in 0..n : k * k >= n /\ (k = 0 \/ (k - 1) * (k - 1) < n)

\* Math.ceil(a / b) for naturals, b > 0
CeilDiv(a, b) == (a + b - 1) \div b

Pos(px, py) == [x |-> px, y |-> py]


----------------------------------------------------------------------------
(* Layout solver, full rearrangement: arrangeNodesIntelligently *)

nodeWidth == 150000
nodeHeight == 80000
minSpacing == 10000
sectionSpacing == 40000
baseX == 50000
horizontalSpacing == nodeWidth + minSpacing + 20000
verticalSpacing == nodeHeight + minSpacing + 20000

\* membership of a node in one of the five filtered lists: triggers, actions,
\* outputs, compliance (the locked nodes), others
InBand(band, n) ==
    LET trigger == n.nodeType \in {"trigger", "manual"}
        action == n.nodeType \in {"action", "condition"}
        output == n.nodeType \in {"database", "notification"}
    IN  CASE band = "triggers" -> trigger
          [] band = "actions" -> action
          [] band = "outputs" -> output
          [] band = "compliance" -> n.locked
          [] OTHER -> ~trigger /\ ~action /\ ~output /\ ~n.locked

\* the index s[i] has in the filtered list, and the length of that list
RankIn(band, s, i) == Cardinality({j \in 1..(i - 1) : InBand(band, s[j])})
CountOf(band, s) == Cardinality({j \in 1..Len(s) : InBand(band, s[j])})

actionsPerRow(s) == Min2(4, Max2(2, CeilSqrt(CountOf("actions", s))))
othersPerRow(s) == Min2(3, Max2(2, CeilSqrt(CountOf("others", s))))

complianceStartX(s) ==
    baseX
      + Max2(Max2(actionsPerRow(s), othersPerRow(s)), CountOf("outputs", s)) * horizontalSpacing
      + sectionSpacing

\* The five forEach passes run in the order triggers, actions, others,
\* outputs, compliance; a locked node is also in the band of its nodeType, and
\* the compliance pass, running last, overwrites the position it got there.
\* actionY, otherY and outputY are currentY when the band starts (50 at first).
ArrangedPosition(s, i) ==
    LET actionY ==
            50000 + (IF CountOf("triggers", s) > 0 THEN verticalSpacing + sectionSpacing ELSE 0)
        otherY ==
            actionY
              + (IF CountOf("actions", s) > 0
                 THEN CeilDiv(CountOf("actions", s), actionsPerRow(s)) * verticalSpacing
                        + sectionSpacing
                 ELSE 0)
        outputY ==
            otherY
              + (IF CountOf("others", s) > 0
                 THEN CeilDiv(CountOf("others", s), othersPerRow(s)) * verticalSpacing
                        + sectionSpacing
                 ELSE 0)
    IN  IF InBand("compliance", s[i])
        THEN Pos(complianceStartX(s), 50000 + RankIn("compliance", s, i) * verticalSpacing)
        ELSE IF InBand("triggers", s[i])
        THEN Pos(baseX + RankIn("triggers", s, i) * horizontalSpacing, 50000)
        ELSE IF InBand("actions", s[i])
        THEN Pos(baseX + (RankIn("actions", s, i) % actionsPerRow(s)) * horizontalSpacing,
                 actionY + (RankIn("actions", s, i) \div actionsPerRow(s)) * verticalSpacing)
        ELSE IF InBand("outputs", s[i])
        THEN Pos(baseX + RankIn("outputs", s, i) * horizontalSpacing, outputY)
        ELSE Pos(baseX + (RankIn("others", s, i) % othersPerRow(s)) * horizontalSpacing,
                 otherY + (RankIn("others", s, i) \div othersPerRow(s)) * verticalSpacing)

arrangeNodesIntelligently(s) ==
    [i \in 1..Len(s) |-> [s[i] EXCEPT !.position = ArrangedPosition(s, i)]]

----------------------------------------------------------------------------
(* Layout solver, incremental placement: findFreePosition *)

\* a caller passes both preferred coordinates or none of them
NoPreference == [given |-> FALSE, x |-> 0, y |-> 0]
Preferred(px, py) == [given |-> TRUE, x |-> px, y |-> py]

\* isPositionFree: no position of allPositions.current or
\* pendingPositions.current is closer than minSpacing in both axes
isPositionFree(testX, testY, positions) ==
    \A k \in 1..Len(positions) :
        LET ex == positions[k].x
            ey == positions[k].y
            rightEdgeNew == testX + nodeWidth
            bottomEdgeNew == testY + nodeHeight
            rightEdgeExisting == ex + nodeWidth
            bottomEdgeExisting == ey + nodeHeight
            horizontalOverlap ==
                ~(rightEdgeNew + minSpacing <= ex \/ testX >= rightEdgeExisting + minSpacing)
            verticalOverlap ==
                ~(bottomEdgeNew + minSpacing <= ey \/ testY >= bottomEdgeExisting + minSpacing)
        IN  ~(horizontalOverlap /\ verticalOverlap)

gridSpacing == nodeWidth + minSpacing + 20000

\* the k-th cell of the grid scan, 10 rows of 8 columns from (startX, startY)
\* = (50, 50), rows outermost (k = row * 8 + col)
GridCandidate(k) ==
    Pos(50000 + (k % 8) * gridSpacing, 50000 + (k \div 8) * (nodeHeight + minSpacing + 20000))

\* the k-th candidate of the spiral scan: radius 50, 100 .. 400 outermost,
\* angle 0, 45 .. 315 innermost, around (preferredX ?? 300, preferredY ?? 200),
\* clamped to 50. dx and dy are radius * Math.cos(angle) and
\* radius * Math.sin(angle) in thousandths of a pixel.
SpiralCandidate(pref, k) ==
    LET radius == 50 * ((k \div 8) + 1)
        a == k % 8
        diagonal == (radius * 707107) \div 1000
        dx == CASE a = 0 -> radius * 1000
                [] a \in {1, 7} -> diagonal
                [] a \in {2, 6} -> 0
                [] a \in {3, 5} -> 0 - diagonal
                [] OTHER -> 0 - radius * 1000
        dy == CASE a \in {0, 4} -> 0
                [] a \in {1, 3} -> diagonal
                [] a = 2 -> radius * 1000
                [] a \in {5, 7} -> 0 - diagonal
                [] OTHER -> 0 - radius * 1000
    IN  Pos(Max2(50000, (IF pref.given THEN pref.x ELSE 300000) + dx),
            Max2(50000, (IF pref.given THEN pref.y ELSE 200000) + dy))

\* the first free cell of the grid scan from cell k on, -1 when none is free
RECURSIVE FirstFreeGrid(_, _)
FirstFreeGrid(k, positions) ==
    IF k >= 10 * 8 THEN 0 - 1
    ELSE IF isPositionFree(GridCandidate(k).x, GridCandidate(k).y, positions) THEN k
    ELSE FirstFreeGrid(k + 1, positions)

\* the first free candidate of the spiral scan from step k on, -1 when none
RECURSIVE FirstFreeSpiral(_, _, _)
FirstFreeSpiral(pref, k, positions) ==
    IF k >= 8 * 8 THEN 0 - 1
    ELSE IF isPositionFree(SpiralCandidate(pref, k).x, SpiralCandidate(pref, k).y, positions)
    THEN k
    ELSE FirstFreeSpiral(pref, k + 1, positions)

\* Math.random() * 200 of the absolute fallback, three representative values
RandomOffsets == {0, 100000, 199999}

\* a search that runs the spiral scan before the grid scan
findFreePositionSpiralFirst(pref, positions) ==
    LET x == IF pref.given THEN pref.x ELSE 100000
        y == IF pref.given THEN pref.y ELSE 100000
        grid == FirstFreeGrid(0, positions)
        spiral == FirstFreeSpiral(pref, 0, positions)
    IN  IF isPositionFree(x, y, positions)
        THEN {[position |-> Pos(x, y), stage |-> "preferred"]}
        ELSE IF spiral >= 0
        THEN {[position |-> SpiralCandidate(pref, spiral), stage |-> "spiral"]}
        ELSE IF grid >= 0
        THEN {[position |-> GridCandidate(grid), stage |-> "grid"]}
        ELSE {[position |-> Pos(Max2(50000, x + rx), Max2(50000, y + ry)),
               stage |-> "random"] : rx \in RandomOffsets, ry \in RandomOffsets}

\* findFreePosition(preferredX, preferredY) against the positions it reads:
\* the set of results the call can return, each with the stage that produced
\* it. The set has one element unless the absolute fallback draws its two
\* random numbers.
findFreePosition(pref, positions) ==
    LET x == IF pref.given THEN pref.x ELSE 100000
        y == IF pref.given THEN pref.y ELSE 100000
        grid == FirstFreeGrid(0, positions)
        spiral == FirstFreeSpiral(pref, 0, positions)
    IN  IF isPositionFree(x, y, positions)
        THEN {[position |-> Pos(x, y), stage |-> "preferred"]}
        ELSE IF grid >= 0
        THEN {[position |-> GridCandidate(grid), stage |-> "grid"]}
        ELSE IF spiral >= 0
        THEN {[position |-> SpiralCandidate(pref, spiral), stage |-> "spiral"]}
        ELSE {[position |-> Pos(Max2(50000, x + rx), Max2(50000, y + ry)),
               stage |-> "random"] : rx \in RandomOffsets, ry \in RandomOffsets}

\* the positions isPositionFree combines
PositionsToCheck == allPositions \o pendingPositions

\* the effect that mirrors the node positions into allPositions.current
PositionsOf(ns) == [i \in 1..Len(ns) |-> ns[i].position]

----------------------------------------------------------------------------
(* Node records *)

\* an absent optional value: compliance_reason, complianceType, matchKeyword,
\* webhookId
None == "none"

MkNode(id, nodeType, label, locked, reason, position) ==
    [id |-> id, nodeType |-> nodeType, label |-> label, locked |-> locked,
     compliance_reason |-> reason, position |-> position]

\* the null of selectedNode and contextMenu.node
NoNode == MkNode(<<"none", 0, 0>>, None, None, FALSE, None, Pos(0, 0))

\* the refs and view state of App and of WorkflowCanvas before any event
\* WorkflowCanvas rendered without a sessionId and without the optional
\* onFlowChange prop: the socket effect returns at once, no handler calls back
NoSession ==
    /\ ws = [readyState |-> "none", wsConnected |-> FALSE, agentStatus |-> "disconnected"]
    /\ flowChange = [given |-> FALSE, nodes |-> <<>>, edges |-> {}]

\* localStorage.getItem('nodex-workflow') of an absent item
NoItem == [stored |-> FALSE, nodes |-> <<>>, edges |-> {}]

\* App with nothing stored, after the autosave timeout of the mount has passed
NoSave ==
    /\ showEditModal = FALSE
    /\ editingNode = NoNode
    /\ saveTimer = FALSE
    /\ localStorage = NoItem

\* isProcessing false and workflowId '' (the empty tuple): no request in
\* flight, no polling interval
NotProcessing ==
    [isProcessing |-> FALSE, workflowId |-> <<>>, pc |-> "idle", polling |-> FALSE]

\* no workflow request and no OpenHands conversation under way
NoRequest ==
    /\ processing = NotProcessing
    /\ poll = [pc |-> "idle", attempts |-> 0, polls |-> 0, error |-> None]

\* nothing selected, no menu and no panel open
NoSelection ==
    /\ selectedNodes = {}
    /\ allPositions = <<>>
    /\ pendingPositions = <<>>
    /\ selectedNode = NoNode
    /\ contextMenu = [show |-> FALSE, node |-> NoNode]
    /\ showNodeDetails = FALSE

Idle ==
    /\ NoSelection
    /\ NoSession
    /\ NoSave
    /\ NoRequest

IdsOf(ns) == {ns[i].id : i \in 1..Len(ns)}

\* Array.prototype.filter on a sequence of nodes, by the set of ids to keep out
RECURSIVE WithoutIds(_, _)
WithoutIds(ns, ids) ==
    IF ns = <<>> THEN <<>>
    ELSE IF Head(ns).id \in ids THEN WithoutIds(Tail(ns), ids)
    ELSE <<Head(ns)>> \o WithoutIds(Tail(ns), ids)

----------------------------------------------------------------------------
(* Specification SpecArrange: a full rearrangement of an arbitrary node list *)

\* the node lists a backend response or the canvas can hand to the solver:
\* any mix of kinds, locked or not, positions not yet assigned
InitArrange ==
    /\ \E n \in 0..MaxArrange :
         \E kinds \in [1..n -> {"trigger", "action", "notification", "validation"}],
            locks \in [1..n -> BOOLEAN] :
            nodes = [i \in 1..n |->
                        MkNode(<<"node", i, 0>>, kinds[i], kinds[i], locks[i],
                               IF locks[i] THEN "Required for regulatory compliance" ELSE None,
                               Pos(0, 0))]
    /\ edges = {}
    /\ now = 0
    /\ lastOp = [op |-> "init"]
    /\ Idle

\* autoArrangeNodes / the rearrangement step of processTextWorkflow
ArrangeGiven ==
    /\ lastOp.op = "init"
    /\ nodes' = arrangeNodesIntelligently(nodes)
    /\ lastOp' = [op |-> "arrangeNodesIntelligently"]
    /\ UNCHANGED <<edges, now, appVars, canvasVars, sideVars>>

SpecArrange == InitArrange /\ [][ArrangeGiven]_vars

----------------------------------------------------------------------------
(* App.tsx: the handlers of the canvas *)

\* the autosave effect, run after every render that changed nodes, edges or
\* showEditModal: the cleanup clears the pending timeout, and a new one is
\* set unless the edit modal is open
autosaveEffect ==
    saveTimer' = IF <<nodes', edges', showEditModal'>> = <<nodes, edges, showEditModal>>
                 THEN saveTimer
                 ELSE ~showEditModal'

\* two entries of nodeTemplates (NodeLibrary): an action and a Compliance
\* entry
DropTemplates ==
    {[id |-> "send_email", label |-> "Send Email (SMTP)", nodeType |-> "action",
      category |-> "Actions"],
     [id |-> "consent_check", label |-> "Consent Verification API", nodeType |-> "action",
      category |-> "Compliance"]}

\* two of the eight prebuilt-node buttons
PrebuiltNodes ==
    {[nodeType |-> "trigger", label |-> "Start Trigger"],
     [nodeType |-> "action", label |-> "Process Data"]}

\* the first workflowTemplates entry, employee_onboarding
TemplateNodes ==
    <<MkNode("trigger_1", "trigger", "New Employee Form", FALSE, None, Pos(50000, 100000)),
      MkNode("validate_1", "validation", "Validate Documents", TRUE,
             "Required for HR compliance", Pos(280000, 100000)),
      MkNode("action_1", "action", "Create HRIS Record", FALSE, None, Pos(510000, 100000)),
      MkNode("email_1", "email", "Welcome Email", FALSE, None, Pos(740000, 100000))>>

TemplateEdges ==
    {[source |-> "trigger_1", target |-> "validate_1"],
     [source |-> "validate_1", target |-> "action_1"],
     [source |-> "action_1", target |-> "email_1"]}

\* template.nodes.findIndex(n => n.id === id), zero-based, -1 when absent
TemplateIndex(id) ==
    IF \E i \in 1..Len(TemplateNodes) : TemplateNodes[i].id = id
    THEN (CHOOSE i \in 1..Len(TemplateNodes) :
            /\ TemplateNodes[i].id = id
            /\ \A j \in 1..(i - 1) : TemplateNodes[j].id # id) - 1
    ELSE 0 - 1

\* onDrop: the node a palette drop creates
onDrop(template, position) ==
    /\ nodes' = Append(nodes,
            MkNode(<<template.id, now, 0>>, template.nodeType, template.label,
                   template.category = "Compliance",
                   IF template.category = "Compliance"
                   THEN "Required for regulatory compliance" ELSE None,
                   position))
    /\ allPositions' = PositionsOf(nodes')
    /\ lastOp' = [op |-> "onDrop"]
    /\ UNCHANGED <<edges, selectedNodes, pendingPositions, canvasVars, sessionVars, modalVars, localStorage, requestVars>>
    /\ autosaveEffect

\* addPrebuiltNode: r is the random id suffix, found the result of
\* findFreePosition()
addPrebuiltNode(prebuilt, r, found) ==
        /\ nodes' = Append(nodes,
                MkNode(<<"node", now, r>>, prebuilt.nodeType, prebuilt.label, FALSE, None,
                       found.position))
        /\ allPositions' = PositionsOf(nodes')
        /\ lastOp' = [op |-> "addPrebuiltNode", placed |-> <<found.position>>,
                      stages |-> <<found.stage>>]
        /\ UNCHANGED <<edges, selectedNodes, pendingPositions, canvasVars, sessionVars, modalVars, localStorage, requestVars>>
        /\ autosaveEffect

\* an auto-fix that appends the validation node without looking for one
autoFixWorkflowAlwaysValidates(foundT, foundV) ==
    LET hasStartNode == \E i \in 1..Len(nodes) : nodes[i].nodeType \in {"trigger", "manual"}
        addTrigger == Len(nodes) > 0 /\ ~hasStartNode
        triggerNode == MkNode(<<"trigger", now, 0>>, "trigger", "Start Trigger", FALSE,
                              None, foundT.position)
        withTrigger == IF addTrigger THEN <<triggerNode>> \o nodes ELSE nodes
        addValidation == Len(withTrigger) > 1
        validationNode == MkNode(<<"validation", now, 0>>, "validation", "Validation Check",
                                 TRUE, "Added for workflow compliance", foundV.position)
        newNodes == IF addValidation THEN Append(withTrigger, validationNode) ELSE withTrigger
    IN  /\ nodes' = newNodes
        /\ allPositions' = PositionsOf(newNodes)
        /\ lastOp' = [op |-> "autoFixWorkflow",
                      placed |-> (IF addTrigger THEN <<foundT.position>> ELSE <<>>)
                                  \o (IF addValidation THEN <<foundV.position>> ELSE <<>>),
                      stages |-> (IF addTrigger THEN <<foundT.stage>> ELSE <<>>)
                                  \o (IF addValidation THEN <<foundV.stage>> ELSE <<>>)]
        /\ UNCHANGED <<edges, selectedNodes, pendingPositions, canvasVars, sessionVars, modalVars, localStorage, requestVars>>
        /\ autosaveEffect

\* autoFixWorkflow: both placements read the refs as they are on entry
autoFixWorkflow(foundT, foundV) ==
    LET hasStartNode == \E i \in 1..Len(nodes) : nodes[i].nodeType \in {"trigger", "manual"}
        addTrigger == Len(nodes) > 0 /\ ~hasStartNode
        triggerNode == MkNode(<<"trigger", now, 0>>, "trigger", "Start Trigger", FALSE,
                              None, foundT.position)
        withTrigger == IF addTrigger THEN <<triggerNode>> \o nodes ELSE nodes
        hasValidation == \E i \in 1..Len(withTrigger) : withTrigger[i].nodeType = "validation"
        addValidation == Len(withTrigger) > 1 /\ ~hasValidation
        validationNode == MkNode(<<"validation", now, 0>>, "validation", "Validation Check",
                                 TRUE, "Added for workflow compliance", foundV.position)
        newNodes == IF addValidation THEN Append(withTrigger, validationNode) ELSE withTrigger
    IN  /\ nodes' = newNodes
        /\ allPositions' = PositionsOf(newNodes)
        /\ lastOp' = [op |-> "autoFixWorkflow",
                      placed |-> (IF addTrigger THEN <<foundT.position>> ELSE <<>>)
                                  \o (IF addValidation THEN <<foundV.position>> ELSE <<>>),
                      stages |-> (IF addTrigger THEN <<foundT.stage>> ELSE <<>>)
                                  \o (IF addValidation THEN <<foundV.stage>> ELSE <<>>)]
        /\ UNCHANGED <<edges, selectedNodes, pendingPositions, canvasVars, sessionVars, modalVars, localStorage, requestVars>>
        /\ autosaveEffect

\* autoArrangeNodes
autoArrangeNodes ==
    /\ nodes' = (IF Len(nodes) = 0 THEN nodes ELSE arrangeNodesIntelligently(nodes))
    /\ allPositions' = PositionsOf(nodes')
    /\ lastOp' = [op |-> "autoArrangeNodes"]
    /\ UNCHANGED <<edges, selectedNodes, pendingPositions, canvasVars, sessionVars, modalVars, localStorage, requestVars>>
    /\ autosaveEffect

\* onSelectionChange
onSelectionChange(ids) ==
    /\ selectedNodes' = ids
    /\ lastOp' = [op |-> "onSelectionChange"]
    /\ UNCHANGED <<nodes, edges, allPositions, pendingPositions, canvasVars, sessionVars, modalVars, localStorage, requestVars>>
    /\ autosaveEffect

\* a deletion that drops only the edges leaving the deleted nodes
deleteSelectedNodesOutgoing(name) ==
    IF selectedNodes = {}
    THEN /\ lastOp' = [op |-> name, outcome |-> "nothing selected"]
         /\ UNCHANGED <<nodes, edges, appVars, canvasVars, sessionVars, modalVars, localStorage, requestVars>>
         /\ autosaveEffect
    ELSE IF \E i \in 1..Len(nodes) : nodes[i].id \in selectedNodes /\ nodes[i].locked
    THEN /\ lastOp' = [op |-> name, outcome |-> "rejected"]
         /\ UNCHANGED <<nodes, edges, appVars, canvasVars, sessionVars, modalVars, localStorage, requestVars>>
         /\ autosaveEffect
    ELSE /\ nodes' = WithoutIds(nodes, selectedNodes)
         /\ edges' = {e \in edges : e.source \notin selectedNodes}
         /\ selectedNodes' = {}
         /\ allPositions' = PositionsOf(nodes')
         /\ lastOp' = [op |-> name, outcome |-> "deleted"]
         /\ UNCHANGED <<pendingPositions, canvasVars, sessionVars, modalVars, localStorage, requestVars>>
         /\ autosaveEffect

\* deleteSelectedNodes; name is the handler it ran for (the toolbar button or
\* the Delete/Backspace key)
deleteSelectedNodes(name) ==
    IF selectedNodes = {}
    THEN /\ lastOp' = [op |-> name, outcome |-> "nothing selected"]
         /\ UNCHANGED <<nodes, edges, appVars, canvasVars, sessionVars, modalVars, localStorage, requestVars>>
         /\ autosaveEffect
    ELSE IF \E i \in 1..Len(nodes) : nodes[i].id \in selectedNodes /\ nodes[i].locked
    THEN /\ lastOp' = [op |-> name, outcome |-> "rejected"]
         /\ UNCHANGED <<nodes, edges, appVars, canvasVars, sessionVars, modalVars, localStorage, requestVars>>
         /\ autosaveEffect
    ELSE /\ nodes' = WithoutIds(nodes, selectedNodes)
         /\ edges' = {e \in edges : e.source \notin selectedNodes /\ e.target \notin selectedNodes}
         /\ selectedNodes' = {}
         /\ allPositions' = PositionsOf(nodes')
         /\ lastOp' = [op |-> name, outcome |-> "deleted"]
         /\ UNCHANGED <<pendingPositions, canvasVars, sessionVars, modalVars, localStorage, requestVars>>
         /\ autosaveEffect

\* the keydown listener: Delete or Backspace with a non-empty selection
handleKeyDown ==
    /\ selectedNodes # {}
    /\ deleteSelectedNodes("handleKeyDown")

\* onConnect: addEdge(params, eds) keeps one edge per source/target pair
onConnect(source, target) ==
    /\ edges' = edges \cup {[source |-> source, target |-> target]}
    /\ lastOp' = [op |-> "onConnect"]
    /\ UNCHANGED <<nodes, appVars, canvasVars, sessionVars, modalVars, localStorage, requestVars>>
    /\ autosaveEffect

\* loadTemplate
loadTemplate ==
    LET timestamp == now
        templateNodes ==
            [i \in 1..Len(TemplateNodes) |->
                [TemplateNodes[i] EXCEPT !.id = <<TemplateNodes[i].id, timestamp, i - 1>>]]
    IN  /\ nodes' = templateNodes
        /\ edges' = {[source |-> <<e.source, timestamp, TemplateIndex(e.source)>>,
                      target |-> <<e.target, timestamp, TemplateIndex(e.target)>>] :
                     e \in TemplateEdges}
        /\ allPositions' = PositionsOf(templateNodes)
        /\ pendingPositions' = <<>>
        /\ lastOp' = [op |-> "loadTemplate"]
        /\ UNCHANGED <<selectedNodes, canvasVars, sessionVars, modalVars, localStorage, requestVars>>
        /\ autosaveEffect

\* clearCanvas
clearCanvas ==
    /\ nodes' = <<>>
    /\ edges' = {}
    /\ allPositions' = <<>>
    /\ pendingPositions' = <<>>
    /\ localStorage' = NoItem
    /\ lastOp' = [op |-> "clearCanvas"]
    /\ UNCHANGED <<selectedNodes, canvasVars, sessionVars, modalVars, requestVars>>
    /\ autosaveEffect

----------------------------------------------------------------------------
(* Specification Spec: the App canvas, from an empty canvas *)

Init ==
    /\ nodes = <<>>
    /\ edges = {}
    /\ now = 0
    /\ lastOp = [op |-> "init"]
    /\ Idle

Tick ==
    /\ now < MaxTime
    /\ now' = now + 1
    /\ UNCHANGED <<nodes, edges, lastOp, appVars, canvasVars, sideVars>>

\* every handler takes its inputs from small sets: a drop lands at (500, 400)
\* (reactFlowInstance.project of the mouse), node-creating handlers stop at
\* MaxNodes nodes, onConnect at MaxEdges edges
Next ==
    \/ Tick
    \/ /\ Len(nodes) < MaxNodes
       /\ \E template \in DropTemplates : onDrop(template, Pos(500000, 400000))
       /\ UNCHANGED now
    \/ /\ Len(nodes) < MaxNodes
       /\ \E prebuilt \in PrebuiltNodes, r \in 1..MaxRandom,
             found \in findFreePosition(NoPreference, PositionsToCheck) :
             /\ <<"node", now, r>> \notin IdsOf(nodes)
             /\ addPrebuiltNode(prebuilt, r, found)
       /\ UNCHANGED now
    \/ /\ Len(nodes) <= MaxNodes
       /\ \E foundT \in findFreePosition(Preferred(50000, 100000), PositionsToCheck),
             foundV \in findFreePosition(NoPreference, PositionsToCheck) :
             autoFixWorkflow(foundT, foundV)
       /\ UNCHANGED now
    \/ autoArrangeNodes /\ UNCHANGED now
    \/ (\E ids \in SUBSET IdsOf(nodes) : onSelectionChange(ids)) /\ UNCHANGED now
    \/ deleteSelectedNodes("deleteSelectedNodes") /\ UNCHANGED now
    \/ handleKeyDown /\ UNCHANGED now
    \/ /\ Cardinality(edges) < MaxEdges
       /\ \E source \in IdsOf(nodes), target \in IdsOf(nodes) : onConnect(source, target)
       /\ UNCHANGED now
    \/ loadTemplate /\ UNCHANGED now
    \/ clearCanvas /\ UNCHANGED now

Spec == Init /\ [][Next]_vars

----------------------------------------------------------------------------
(* Specification SpecGraph: the App handlers that create nodes, connect     *)
(* them, delete them and load a template                                    *)

\* palette drops up to MaxNodes nodes, connections up to MaxEdges edges, any
\* selection of nodes of the canvas
NextGraph ==
    \/ Tick
    \/ /\ Len(nodes) < MaxNodes
       /\ \E template \in DropTemplates : onDrop(template, Pos(500000, 400000))
       /\ UNCHANGED now
    \/ (\E ids \in SUBSET IdsOf(nodes) : onSelectionChange(ids)) /\ UNCHANGED now
    \/ deleteSelectedNodes("deleteSelectedNodes") /\ UNCHANGED now
    \/ handleKeyDown /\ UNCHANGED now
    \/ /\ Cardinality(edges) < MaxEdges
       /\ \E source \in IdsOf(nodes), target \in IdsOf(nodes) : onConnect(source, target)
       /\ UNCHANGED now
    \/ loadTemplate /\ UNCHANGED now

SpecGraph == Init /\ [][NextGraph]_vars

----------------------------------------------------------------------------
(* Specification SpecPlace: incremental placement on canvases that palette  *)
(* drops have populated                                                      *)

\* positions of earlier palette drops on a lightly filled canvas
PlaceDrops ==
    {Pos(100000, 100000), Pos(50000, 50000), Pos(230000, 50000), Pos(410000, 50000),
     Pos(60000, 160000), Pos(300000, 250000)}

DroppedNode(k, position) ==
    MkNode(<<"send_email", 0 - k, 0>>, "action", "Send Email (SMTP)", FALSE, None, position)

\* a crowded canvas: 7 rows of 5 dropped nodes, 300 px apart horizontally and
\* 170 px vertically, so that every candidate of the grid scan and of the
\* spiral scan is closer than minSpacing to one of them
CrowdedCanvas ==
    [k \in 1..35 |->
        DroppedNode(k, Pos(140000 + ((k - 1) % 5) * 300000, 105000 + ((k - 1) \div 5) * 170000))]

\* a canvas that blocks the grid scan only: 5 rows of 4 dropped nodes, 360 px
\* apart horizontally and 220 px vertically, each closer than minSpacing to
\* four cells of the grid, and one more node at (350, 200) on the first ring
\* of the spiral around (300, 200)
GridBlockedCanvas ==
    [k \in 1..21 |->
        IF k = 21 THEN DroppedNode(k, Pos(350000, 200000))
        ELSE DroppedNode(k, Pos(140000 + ((k - 1) % 4) * 360000,
                                105000 + ((k - 1) \div 4) * 220000))]

InitPlace ==
    /\ nodes \in {<<>>, CrowdedCanvas, GridBlockedCanvas}
                    \cup {<<DroppedNode(1, p)>> : p \in PlaceDrops}
                    \cup {<<DroppedNode(1, pq[1]), DroppedNode(2, pq[2])>> :
                            pq \in {d \in PlaceDrops \X PlaceDrops : d[1] # d[2]}}
    /\ edges = {}
    /\ now = 0
    /\ lastOp = [op |-> "init"]
    /\ selectedNodes = {}
    /\ allPositions = PositionsOf(nodes)
    /\ pendingPositions = <<>>
    /\ selectedNode = NoNode
    /\ contextMenu = [show |-> FALSE, node |-> NoNode]
    /\ showNodeDetails = FALSE
    /\ NoSession
    /\ NoSave
    /\ NoRequest

\* MaxPlaced clicks, each a millisecond or more after the last: a click on a
\* prebuilt-node button, or a click on the auto-fix button
NextPlace ==
    \/ /\ now < MaxPlaced
       /\ now' = now + 1
       /\ \E prebuilt \in PrebuiltNodes, r \in 1..MaxRandom,
             found \in findFreePosition(NoPreference, PositionsToCheck) :
             addPrebuiltNode(prebuilt, r, found)
    \/ /\ now < MaxPlaced
       /\ now' = now + 1
       /\ \E foundT \in findFreePosition(Preferred(50000, 100000), PositionsToCheck),
             foundV \in findFreePosition(NoPreference, PositionsToCheck) :
             autoFixWorkflow(foundT, foundV)

SpecPlace == InitPlace /\ [][NextPlace]_vars

----------------------------------------------------------------------------
(* App.tsx: the edit modal and the autosave to localStorage *)

\* onNodeDoubleClick: node is a node of the canvas
onNodeDoubleClick(node) ==
    /\ showEditModal' = TRUE
    /\ editingNode' = node
    /\ lastOp' = [op |-> "onNodeDoubleClick"]
    /\ UNCHANGED <<nodes, edges, appVars, canvasVars, sessionVars, localStorage, requestVars>>
    /\ autosaveEffect

\* saveEditedNode({label}), the Save button of the edit modal
saveEditedNode(label) ==
    IF editingNode = NoNode
    THEN /\ lastOp' = [op |-> "saveEditedNode"]
         /\ UNCHANGED <<nodes, edges, appVars, canvasVars, sideVars>>
    ELSE /\ nodes' = [i \in 1..Len(nodes) |->
                         IF nodes[i].id = editingNode.id
                         THEN [nodes[i] EXCEPT !.label = label]
                         ELSE nodes[i]]
         /\ showEditModal' = FALSE
         /\ editingNode' = NoNode
         /\ lastOp' = [op |-> "saveEditedNode"]
         /\ UNCHANGED <<edges, appVars, canvasVars, sessionVars, localStorage, requestVars>>
         /\ autosaveEffect

\* cancelNodeEdit, the Cancel button of the edit modal
cancelNodeEdit ==
    /\ showEditModal' = FALSE
    /\ editingNode' = NoNode
    /\ lastOp' = [op |-> "cancelNodeEdit"]
    /\ UNCHANGED <<nodes, edges, appVars, canvasVars, sessionVars, localStorage, requestVars>>
    /\ autosaveEffect

\* the callback of the autosave timeout, 500 ms after the effect set it; the
\* item holds the JSON text of nodes and edges, kept here as the pair that
\* JSON.parse gives back
autosaveTimeout ==
    /\ saveTimer
    /\ saveTimer' = FALSE
    /\ localStorage' = IF Len(nodes) > 0 \/ Cardinality(edges) > 0
                       THEN [stored |-> TRUE, nodes |-> nodes, edges |-> edges]
                       ELSE localStorage
    /\ lastOp' = [op |-> "autosave"]
    /\ UNCHANGED <<nodes, edges, appVars, canvasVars, sessionVars, modalVars, requestVars>>

----------------------------------------------------------------------------
(* Specification SpecSave: the App canvas and its stored copy, from a mount  *)
(* with or without a stored workflow                                         *)

\* after the mount: the restore effect has put the stored workflow on the
\* canvas and the autosave effect has set its timeout
InitSave ==
    /\ localStorage \in {NoItem,
                         [stored |-> TRUE,
                          nodes |-> <<MkNode(<<"action", 0, 1>>, "action", "Process Data",
                                             FALSE, None, Pos(300000, 200000))>>,
                          edges |-> {}]}
    /\ nodes = (IF localStorage.stored THEN localStorage.nodes ELSE <<>>)
    /\ edges = (IF localStorage.stored THEN localStorage.edges ELSE {})
    /\ now = 0
    /\ lastOp = [op |-> "init"]
    /\ selectedNodes = {}
    /\ allPositions = PositionsOf(nodes)
    /\ pendingPositions = <<>>
    /\ selectedNode = NoNode
    /\ contextMenu = [show |-> FALSE, node |-> NoNode]
    /\ showNodeDetails = FALSE
    /\ NoSession
    /\ showEditModal = FALSE
    /\ editingNode = NoNode
    /\ saveTimer = TRUE
    /\ NoRequest

\* one palette drop a millisecond after the mount, connections up to MaxEdges
\* edges, any selection, deletion, Clear, the edit modal with one typed
\* label, and the autosave timeout
NextSave ==
    \/ /\ Len(nodes) < MaxNodes
       /\ now < MaxTime
       /\ now' = now + 1
       /\ \E template \in DropTemplates : onDrop(template, Pos(500000, 400000))
    \/ (\E ids \in SUBSET IdsOf(nodes) : onSelectionChange(ids)) /\ UNCHANGED now
    \/ deleteSelectedNodes("deleteSelectedNodes") /\ UNCHANGED now
    \/ /\ Cardinality(edges) < MaxEdges
       /\ \E source \in IdsOf(nodes), target \in IdsOf(nodes) : onConnect(source, target)
       /\ UNCHANGED now
    \/ clearCanvas /\ UNCHANGED now
    \/ /\ ~showEditModal
       /\ \E i \in 1..Len(nodes) : onNodeDoubleClick(nodes[i])
       /\ UNCHANGED now
    \/ showEditModal /\ saveEditedNode("Renamed") /\ UNCHANGED now
    \/ showEditModal /\ cancelNodeEdit /\ UNCHANGED now
    \/ autosaveTimeout /\ UNCHANGED now

SpecSave == InitSave /\ [][NextSave]_vars

----------------------------------------------------------------------------
(* WorkflowCanvas.tsx: the handlers of the editor *)

\* the label column of addNode's nodeTypes table
CanvasLabel(type) ==
    CASE type = "input" -> "Input"
      [] type = "decision" -> "Decision"
      [] type = "compliance" -> "Compliance"
      [] type = "output" -> "Output"
      [] type = "approval" -> "Approval"
      [] OTHER -> "Process"

\* a step of a backend graph; no handler of the editor reads positions, (100,
\* 100) stands for all of them
BackendNode(k, locked) ==
    MkNode(<<"step", k, 0>>, "process", "Step", locked,
           IF locked THEN "Required by policy" ELSE None, Pos(100000, 100000))

\* the node lists a workflow_update message can carry: up to two backend
\* steps, the first locked or not
BackendNodeLists ==
    {<<>>}
      \cup {<<BackendNode(1, l)>> : l \in BOOLEAN}
      \cup {<<BackendNode(1, TRUE), BackendNode(2, FALSE)>>}

\* if (onFlowChange) onFlowChange(ns, es): the parent receives the pair when
\* it supplied the prop
onFlowChange(ns, es) ==
    flowChange' = IF flowChange.given
                  THEN [given |-> TRUE, nodes |-> ns, edges |-> es]
                  ELSE flowChange

\* addNode(type); the position Math.random() draws is not read by any handler
addNode(type) ==
    /\ nodes' = Append(nodes,
            MkNode(<<type, now, 0>>, type, CanvasLabel(type), type = "compliance", None,
                   Pos(100000, 100000)))
    /\ onFlowChange(nodes', edges)
    /\ lastOp' = [op |-> "addNode"]
    /\ UNCHANGED <<edges, appVars, canvasVars, ws, saveVars, requestVars>>

\* duplicateNode(node): node is the object the caller holds
duplicateNode(node) ==
    /\ nodes' = Append(nodes,
          [node EXCEPT !.id = node.id \o <<"copy", now>>,
                       !.position = Pos(node.position.x + 150000, node.position.y + 50000),
                       !.label = node.label \o " (Copy)"])
    /\ onFlowChange(nodes', edges)

\* deleteNode(nodeId): the updater of setNodes hands the parent the edges of
\* the render in which the callback was made, before setEdges filters them
deleteNode(nodeId) ==
    /\ nodes' = WithoutIds(nodes, {nodeId})
    /\ onFlowChange(nodes', edges)
    /\ edges' = {e \in edges : e.source # nodeId /\ e.target # nodeId}
    /\ showNodeDetails' = FALSE

\* onNodeClick
onNodeClick(node) ==
    /\ selectedNode' = node
    /\ showNodeDetails' = TRUE
    /\ lastOp' = [op |-> "onNodeClick"]
    /\ UNCHANGED <<nodes, edges, appVars, contextMenu, sideVars>>

\* onNodeContextMenu
onNodeContextMenu(node) ==
    /\ selectedNode' = node
    /\ contextMenu' = [show |-> TRUE, node |-> node]
    /\ lastOp' = [op |-> "onNodeContextMenu"]
    /\ UNCHANGED <<nodes, edges, appVars, showNodeDetails, sideVars>>

\* onPaneClick
onPaneClick ==
    /\ showNodeDetails' = FALSE
    /\ contextMenu' = [show |-> FALSE, node |-> NoNode]
    /\ lastOp' = [op |-> "onPaneClick"]
    /\ UNCHANGED <<nodes, edges, appVars, selectedNode, sideVars>>

\* handleDelete, the Delete entry of the context menu
handleDelete ==
    /\ IF contextMenu.node # NoNode /\ ~contextMenu.node.locked
       THEN deleteNode(contextMenu.node.id)
       ELSE UNCHANGED <<nodes, edges, showNodeDetails, flowChange>>
    /\ contextMenu' = [show |-> FALSE, node |-> NoNode]
    /\ lastOp' = [op |-> "handleDelete"]
    /\ UNCHANGED <<appVars, selectedNode, ws, saveVars, requestVars>>

\* handleDuplicate, the Duplicate entry of the context menu
handleDuplicate ==
    /\ IF contextMenu.node # NoNode
       THEN duplicateNode(contextMenu.node)
       ELSE UNCHANGED <<nodes, flowChange>>
    /\ contextMenu' = [show |-> FALSE, node |-> NoNode]
    /\ lastOp' = [op |-> "handleDuplicate"]
    /\ UNCHANGED <<edges, appVars, selectedNode, showNodeDetails, ws, saveVars, requestVars>>

\* the Delete button of the details panel: rendered while the panel is open,
\* disabled while selectedNode.data.locked
panelDelete ==
    /\ showNodeDetails
    /\ selectedNode # NoNode
    /\ ~selectedNode.locked
    /\ deleteNode(selectedNode.id)
    /\ lastOp' = [op |-> "panelDelete"]
    /\ UNCHANGED <<appVars, selectedNode, contextMenu, ws, saveVars, requestVars>>

\* the Duplicate button of the details panel
panelDuplicate ==
    /\ showNodeDetails
    /\ selectedNode # NoNode
    /\ duplicateNode(selectedNode)
    /\ lastOp' = [op |-> "panelDuplicate"]
    /\ UNCHANGED <<edges, appVars, canvasVars, ws, saveVars, requestVars>>

\* the workflow_update branch of ws.onmessage
workflowUpdate(newNodes, newEdges) ==
    /\ nodes' = newNodes
    /\ edges' = newEdges
    /\ onFlowChange(newNodes, newEdges)
    /\ lastOp' = [op |-> "workflow_update"]
    /\ UNCHANGED <<appVars, canvasVars, ws, saveVars, requestVars>>

\* the Clear Workflow button
clearWorkflow ==
    /\ nodes' = <<>>
    /\ edges' = {}
    /\ onFlowChange(<<>>, {})
    /\ lastOp' = [op |-> "clearWorkflow"]
    /\ UNCHANGED <<appVars, canvasVars, ws, saveVars, requestVars>>

\* updateNodeDetails(id, {label}): the Label input of the details panel
updateNodeDetails(id, label) ==
    /\ nodes' = [i \in 1..Len(nodes) |->
                    IF nodes[i].id = id THEN [nodes[i] EXCEPT !.label = label] ELSE nodes[i]]
    /\ onFlowChange(nodes', edges)
    /\ lastOp' = [op |-> "updateNodeDetails"]
    /\ UNCHANGED <<edges, appVars, canvasVars, ws, saveVars, requestVars>>

\* changeNodeType(nodeId, newType): the kind and the label of the type table
changeNodeType(nodeId, newType) ==
    /\ nodes' = [i \in 1..Len(nodes) |->
                    IF nodes[i].id = nodeId
                    THEN [nodes[i] EXCEPT !.nodeType = newType, !.label = CanvasLabel(newType)]
                    ELSE nodes[i]]
    /\ onFlowChange(nodes', edges)

\* handleChangeType, the Change Type entries of the context menu
handleChangeType(newType) ==
    /\ IF contextMenu.node # NoNode
       THEN changeNodeType(contextMenu.node.id, newType)
       ELSE UNCHANGED <<nodes, flowChange>>
    /\ contextMenu' = [show |-> FALSE, node |-> NoNode]
    /\ lastOp' = [op |-> "handleChangeType"]
    /\ UNCHANGED <<edges, appVars, selectedNode, showNodeDetails, ws, saveVars, requestVars>>

\* onConnect of the editor
canvasConnect(source, target) ==
    /\ edges' = edges \cup {[source |-> source, target |-> target]}
    /\ onFlowChange(nodes, edges')
    /\ lastOp' = [op |-> "canvasConnect"]
    /\ UNCHANGED <<nodes, appVars, canvasVars, ws, saveVars, requestVars>>

----------------------------------------------------------------------------
(* Specification SpecCanvas: the WorkflowCanvas editor, from an empty graph *)

\* addNode for two of the six node types; clicks and context menus on the
\* nodes of the canvas; the two menu entries while the menu is shown; the two
\* panel buttons; a workflow_update with or without the edge between its two
\* steps. Node-creating handlers stop at MaxNodes nodes and at copies of
\* depth MaxCopyDepth (an id grows by two parts with every copy).
NextCanvas ==
    \/ Tick
    \/ /\ Len(nodes) < MaxNodes
       /\ \E type \in {"process", "compliance"} : addNode(type)
       /\ UNCHANGED now
    \/ (\E i \in 1..Len(nodes) : onNodeClick(nodes[i])) /\ UNCHANGED now
    \/ (\E i \in 1..Len(nodes) : onNodeContextMenu(nodes[i])) /\ UNCHANGED now
    \/ onPaneClick /\ UNCHANGED now
    \/ contextMenu.show /\ handleDelete /\ UNCHANGED now
    \/ /\ contextMenu.show
       /\ Len(nodes) < MaxNodes
       /\ (Len(contextMenu.node.id) - 3) \div 2 < MaxCopyDepth
       /\ handleDuplicate
       /\ UNCHANGED now
    \/ panelDelete /\ UNCHANGED now
    \/ /\ Len(nodes) < MaxNodes
       /\ (Len(selectedNode.id) - 3) \div 2 < MaxCopyDepth
       /\ panelDuplicate
       /\ UNCHANGED now
    \/ /\ \E newNodes \in BackendNodeLists,
             newEdges \in {{}, {[source |-> <<"step", 1, 0>>, target |-> <<"step", 2, 0>>]}} :
             workflowUpdate(newNodes, newEdges)
       /\ UNCHANGED now
    \/ clearWorkflow /\ UNCHANGED now
    \/ /\ Cardinality(edges) < MaxEdges
       /\ \E source \in IdsOf(nodes), target \in IdsOf(nodes) : canvasConnect(source, target)
       /\ UNCHANGED now

SpecCanvas == Init /\ [][NextCanvas]_vars

----------------------------------------------------------------------------
(* Specification SpecRename: the edit controls of WorkflowCanvas that write  *)
(* a label, on a canvas filled by addNode                                    *)

\* the Label input and the Node Type select of the details panel and the
\* Change Type entries of the context menu, with one typed label and two
\* types
NextRename ==
    \/ /\ Len(nodes) < MaxNodes
       /\ \E type \in {"process", "compliance"} : addNode(type)
       /\ UNCHANGED now
    \/ (\E i \in 1..Len(nodes) : onNodeClick(nodes[i])) /\ UNCHANGED now
    \/ (\E i \in 1..Len(nodes) : onNodeContextMenu(nodes[i])) /\ UNCHANGED now
    \/ onPaneClick /\ UNCHANGED now
    \/ /\ showNodeDetails
       /\ selectedNode # NoNode
       /\ updateNodeDetails(selectedNode.id, "Renamed")
       /\ UNCHANGED now
    \/ /\ showNodeDetails
       /\ selectedNode # NoNode
       /\ \E newType \in {"approval", "compliance"} :
             changeNodeType(selectedNode.id, newType)
       /\ lastOp' = [op |-> "changeNodeType"]
       /\ UNCHANGED <<edges, now, appVars, canvasVars, ws, saveVars, requestVars>>
    \/ /\ contextMenu.show
       /\ \E newType \in {"approval", "compliance"} : handleChangeType(newType)
       /\ UNCHANGED now

SpecRename == Init /\ [][NextRename]_vars

----------------------------------------------------------------------------
(* Specification SpecFlow: the editor under a parent that supplies the      *)
(* onFlowChange prop                                                         *)

InitFlow ==
    /\ nodes = <<>>
    /\ edges = {}
    /\ now = 0
    /\ lastOp = [op |-> "init"]
    /\ NoSelection
    /\ ws = [readyState |-> "none", wsConnected |-> FALSE, agentStatus |-> "disconnected"]
    /\ flowChange = [given |-> TRUE, nodes |-> <<>>, edges |-> {}]
    /\ NoSave
    /\ NoRequest

\* the edit operations that call onFlowChange: add, connect, delete, duplicate,
\* rename and change type, and the clicks that select their node
NextFlow ==
    \/ /\ Len(nodes) < MaxNodes
       /\ addNode("process")
       /\ now < MaxTime
       /\ now' = now + 1
    \/ (\E i \in 1..Len(nodes) : onNodeClick(nodes[i])) /\ UNCHANGED now
    \/ (\E i \in 1..Len(nodes) : onNodeContextMenu(nodes[i])) /\ UNCHANGED now
    \/ /\ Cardinality(edges) < MaxEdges
       /\ \E source \in IdsOf(nodes), target \in IdsOf(nodes) : canvasConnect(source, target)
       /\ UNCHANGED now
    \/ contextMenu.show /\ handleDelete /\ UNCHANGED now
    \/ panelDelete /\ UNCHANGED now
    \/ /\ contextMenu.show
       /\ Len(nodes) < MaxNodes
       /\ (Len(contextMenu.node.id) - 3) \div 2 < MaxCopyDepth
       /\ handleDuplicate
       /\ UNCHANGED now
    \/ /\ showNodeDetails
       /\ selectedNode # NoNode
       /\ updateNodeDetails(selectedNode.id, "Renamed")
       /\ UNCHANGED now
    \/ /\ contextMenu.show
       /\ handleChangeType("approval")
       /\ UNCHANGED now

SpecFlow == InitFlow /\ [][NextFlow]_vars

----------------------------------------------------------------------------
(* Invariant Enforcer (backend service): enforce(graph, ruleSet), after the  *)
(* algorithm of section 4.2.  A graph is the sequence `nodes` (the order in  *)
(* which "the first existing node" is searched) and the set `edges`.         *)

\* a node of the Graph Model, with the complianceType marker of injected nodes
GNode(id, kind, label, locked, complianceReason, complianceType) ==
    [id |-> id, kind |-> kind, label |-> label, locked |-> locked,
     complianceReason |-> complianceReason, complianceType |-> complianceType]

Domains == {"finance", "hr"}

\* RuleSet: domainTag -> ordered sequence of RequiredStep
RuleSet(domainTag) ==
    IF domainTag = "finance"
    THEN <<[label |-> "Fraud Risk Assessment", complianceType |-> "fraud",
            mode |-> "beforeLabelMatch", matchKeyword |-> "payment",
            reason |-> "Fraud screening is mandatory before payments"],
           [label |-> "Transaction Audit", complianceType |-> "audit",
            mode |-> "afterLabelMatch", matchKeyword |-> "payment",
            reason |-> "Every payment leaves an audit trail"]>>
    ELSE <<[label |-> "Consent Verification", complianceType |-> "consent",
            mode |-> "beforeLabelMatch", matchKeyword |-> "validate",
            reason |-> "Consent is verified before documents are processed"],
           [label |-> "Audit Log", complianceType |-> "audit",
            mode |-> "atEnd", matchKeyword |-> None,
            reason |-> "HR actions are logged"]>>

\* case-insensitive containment of a keyword in a label: the keyword is one
\* of the lower-cased words of the label
LabelContains(label, keyword) ==
    keyword \in
        CASE label = "Invoice Received" -> {"invoice", "received"}
          [] label = "Process Payment" -> {"process", "payment"}
          [] label = "Fraud Check" -> {"fraud", "check"}
          [] label = "Fraud Risk Assessment" -> {"fraud", "risk", "assessment"}
          [] label = "Transaction Audit" -> {"transaction", "audit"}
          [] label = "Consent Verification" -> {"consent", "verification"}
          [] label = "Audit Log" -> {"audit", "log"}
          [] OTHER -> {}

\* a match test that compares the whole label with the keyword
MatchesExactLabel(node, step) == node.label = step.complianceType

\* step 1: the node matches the step: its label contains the step's
\* complianceType keyword, or it carries the same complianceType marker
Matches(node, step) ==
    \/ node.complianceType = step.complianceType
    \/ LabelContains(node.label, step.complianceType)

\* the id of a synthesized node: the first unused number for its type
FreshId(ns, complianceType) ==
    <<"compliance", complianceType,
      CHOOSE k \in 1..(Len(ns) + 1) :
          /\ <<"compliance", complianceType, k>> \notin {ns[i].id : i \in 1..Len(ns)}
          /\ \A j \in 1..(k - 1) :
                <<"compliance", complianceType, j>> \in {ns[i].id : i \in 1..Len(ns)}>>

\* step 2: the new node, its kind chosen from complianceType
Synthesize(ns, step) ==
    GNode(FreshId(ns, step.complianceType),
          CASE step.complianceType = "audit" -> "audit"
            [] step.complianceType = "notify" -> "notification"
            [] OTHER -> "validation",
          step.label, TRUE, step.reason, step.complianceType)

\* step 3: the first existing node whose label contains matchKeyword
HasAnchor(ns, step) ==
    /\ step.mode \in {"beforeLabelMatch", "afterLabelMatch"}
    /\ \E i \in 1..Len(ns) : LabelContains(ns[i].label, step.matchKeyword)

Anchor(ns, step) ==
    ns[CHOOSE i \in 1..Len(ns) :
          /\ LabelContains(ns[i].label, step.matchKeyword)
          /\ \A j \in 1..(i - 1) : ~LabelContains(ns[j].label, step.matchKeyword)].id

Edge(source, target) == [source |-> source, target |-> target]

\* step 4: splice the new node into the edge set, in the mode left by the
\* fallback of step 3 (atStart for beforeLabelMatch, atEnd for afterLabelMatch)
Splice(ns, es, step, new) ==
    LET ids == {ns[i].id : i \in 1..Len(ns)}
        mode == CASE HasAnchor(ns, step) -> step.mode
                  [] step.mode \in {"beforeLabelMatch", "atStart"} -> "atStart"
                  [] OTHER -> "atEnd"
    IN  CASE mode = "beforeLabelMatch" ->
                LET A == Anchor(ns, step)
                IN  {e \in es : e.target # A}
                      \cup {Edge(e.source, new) : e \in {d \in es : d.target = A}}
                      \cup {Edge(new, A)}
          [] mode = "afterLabelMatch" ->
                LET A == Anchor(ns, step)
                IN  {e \in es : e.source # A}
                      \cup {Edge(new, e.target) : e \in {d \in es : d.source = A}}
                      \cup {Edge(A, new)}
          [] mode = "atStart" ->
                es \cup {Edge(new, n) : n \in ids \ {e.target : e \in es}}
          [] OTHER ->
                es \cup {Edge(n, new) : n \in ids \ {e.source : e \in es}}

\* Graph Model validate(): duplicate ids, dangling edges, self-loops
validate(ns, es) ==
    /\ \A i, j \in 1..Len(ns) : ns[i].id = ns[j].id => i = j
    /\ \A e \in es :
          /\ e.source \in {ns[i].id : i \in 1..Len(ns)}
          /\ e.target \in {ns[i].id : i \in 1..Len(ns)}
          /\ e.source # e.target

\* one RequiredStep applied to the graph g: a node that matches, locked or
\* not, ends the step; otherwise steps 2 to 4 run
ApplyStep(g, step) ==
    IF \E i \in 1..Len(g.nodes) : Matches(g.nodes[i], step)
    THEN g
    ELSE LET new == Synthesize(g.nodes, step)
         IN  [nodes |-> Append(g.nodes, new),
              edges |-> Splice(g.nodes, g.edges, step, new.id),
              warnings |-> IF step.mode \in {"beforeLabelMatch", "afterLabelMatch"}
                                /\ ~HasAnchor(g.nodes, step)
                           THEN g.warnings \cup {step.complianceType}
                           ELSE g.warnings,
              nodesAdded |-> g.nodesAdded + 1]

RECURSIVE ApplySteps(_, _, _)
ApplySteps(g, steps, k) ==
    IF k > Len(steps) THEN g ELSE ApplySteps(ApplyStep(g, steps[k]), steps, k + 1)

\* enforce(graph, ruleSet) -> graph', with the warnings and the nodesAdded
\* count of complianceInfo
enforce(ns, es, ruleSet) ==
    ApplySteps([nodes |-> ns, edges |-> es, warnings |-> {}, nodesAdded |-> 0], ruleSet, 1)

----------------------------------------------------------------------------
(* Specification SpecEnforce: one session's graph under enforcement and the  *)
(* structural edits that are re-enforced                                     *)

\* the nodes a client can put into the graph: two plain steps, a step whose
\* label names a compliance keyword, and a formerly injected node that comes
\* back from the client with its lock cleared
UserNodes ==
    <<GNode(<<"user", "invoice", 1>>, "trigger", "Invoice Received", FALSE, None, None),
      GNode(<<"user", "payment", 1>>, "action", "Process Payment", FALSE, None, None),
      GNode(<<"user", "check", 1>>, "validation", "Fraud Check", FALSE, None, None),
      GNode(<<"user", "fraud", 1>>, "validation", "Fraud Risk Assessment", FALSE, None,
            "fraud")>>

RECURSIVE Pick(_, _, _)
\* the subsequence of ns at the indices in keep, from index k on
Pick(ns, keep, k) ==
    IF k > Len(ns) THEN <<>>
    ELSE (IF k \in keep THEN <<ns[k]>> ELSE <<>>) \o Pick(ns, keep, k + 1)

\* a client graph: some of the user nodes, in their order, and up to
\* MaxEdges + 1 forward edges between them
InputGraphs ==
    LET all == 1..Len(UserNodes)
        forward(keep) == {Edge(UserNodes[ij[1]].id, UserNodes[ij[2]].id) :
                            ij \in {d \in keep \X keep : d[1] < d[2]}}
    IN  {[nodes |-> Pick(UserNodes, ke[1], 1), edges |-> ke[2]] :
            ke \in {d \in (SUBSET all) \X (SUBSET forward(all)) :
                        /\ d[2] \subseteq forward(d[1])
                        /\ Cardinality(d[2]) <= MaxEdges + 1}}

InitEnforce ==
    /\ \E g \in InputGraphs : nodes = g.nodes /\ edges = g.edges
    /\ \E domainTag \in Domains : lastOp = [op |-> "init", domain |-> domainTag]
    /\ now = 0
    /\ Idle

\* the session's graph is replaced by enforce(graph, R(domain)) when the
\* result validates, and kept otherwise
EnforceGraph ==
    LET g == enforce(nodes, edges, RuleSet(lastOp.domain))
        ok == validate(g.nodes, g.edges)
    IN  /\ nodes' = IF ok THEN g.nodes ELSE nodes
        /\ edges' = IF ok THEN g.edges ELSE edges
        /\ lastOp' = [op |-> "enforce", domain |-> lastOp.domain, previous |-> lastOp.op,
                      outcome |-> IF ok THEN "accepted" ELSE "ValidationError",
                      nodesAdded |-> g.nodesAdded, warnings |-> g.warnings]
        /\ UNCHANGED <<now, appVars, canvasVars, sideVars>>

\* a removal that got through to the graph: the node and its incident edges
RemoveNode ==
    \E i \in 1..Len(nodes) :
        /\ nodes' = WithoutIds(nodes, {nodes[i].id})
        /\ edges' = {e \in edges : e.source # nodes[i].id /\ e.target # nodes[i].id}
        /\ lastOp' = [op |-> "removeNode", domain |-> lastOp.domain, previous |-> lastOp.op,
                      removed |-> nodes[i], nodesBefore |-> nodes, edgesBefore |-> edges]
        /\ UNCHANGED <<now, appVars, canvasVars, sideVars>>

\* a client adds one of its nodes, unconnected
AddUserNode ==
    \E k \in 1..Len(UserNodes) :
        /\ UserNodes[k].id \notin IdsOf(nodes)
        /\ nodes' = Append(nodes, UserNodes[k])
        /\ lastOp' = [op |-> "addNode", domain |-> lastOp.domain, previous |-> lastOp.op]
        /\ UNCHANGED <<edges, now, appVars, canvasVars, sideVars>>

NextEnforce ==
    \/ EnforceGraph
    \/ RemoveNode
    \/ AddUserNode

SpecEnforce == InitEnforce /\ [][NextEnforce]_vars

----------------------------------------------------------------------------
(* WorkflowCanvas.tsx: the WebSocket effect *)

\* the values of type AgentStatus
AgentStatus == {"disconnected", "connecting", "connected", "speaking", "listening", "error"}

\* ws.onopen
wsOnOpen ==
    /\ ws.readyState = "connecting"
    /\ ws' = [readyState |-> "open", wsConnected |-> TRUE, agentStatus |-> "connected"]
    /\ lastOp' = [op |-> "ws.onopen"]
    /\ UNCHANGED <<nodes, edges, appVars, canvasVars, flowChange, saveVars, requestVars>>

\* the agent_response branch of ws.onmessage
agentResponse ==
    /\ ws' = [ws EXCEPT !.agentStatus = "connected"]
    /\ lastOp' = [op |-> "agent_response"]
    /\ UNCHANGED <<nodes, edges, appVars, canvasVars, flowChange, saveVars, requestVars>>

\* the agent_status branch of ws.onmessage
agentStatusMessage(status) ==
    /\ ws' = [ws EXCEPT !.agentStatus = status]
    /\ lastOp' = [op |-> "agent_status"]
    /\ UNCHANGED <<nodes, edges, appVars, canvasVars, flowChange, saveVars, requestVars>>

\* ws.onerror: the browser fires it when the connection fails; the socket is
\* closed by then and its close event is queued
wsOnError ==
    /\ ws.readyState \in {"connecting", "open"}
    /\ ws' = [readyState |-> "failed", wsConnected |-> FALSE, agentStatus |-> "error"]
    /\ lastOp' = [op |-> "ws.onerror"]
    /\ UNCHANGED <<nodes, edges, appVars, canvasVars, flowChange, saveVars, requestVars>>

\* ws.onclose: after a failure, or when the server closes the connection
wsOnClose ==
    /\ ws.readyState \in {"connecting", "open", "failed"}
    /\ ws' = [readyState |-> "closed", wsConnected |-> FALSE, agentStatus |-> "disconnected"]
    /\ lastOp' = [op |-> "ws.onclose"]
    /\ UNCHANGED <<nodes, edges, appVars, canvasVars, flowChange, saveVars, requestVars>>

----------------------------------------------------------------------------
(* Specification SpecSocket: the socket of a mounted canvas *)

\* the canvas mounted with a sessionId: the effect has run once and made the
\* socket; sessionId, onFlowChange, setNodes and setEdges keep their identity,
\* so the effect does not run again
InitSocket ==
    /\ nodes = <<>>
    /\ edges = {}
    /\ now = 0
    /\ lastOp = [op |-> "init"]
    /\ NoSelection
    /\ ws = [readyState |-> "connecting", wsConnected |-> FALSE,
             agentStatus |-> "disconnected"]
    /\ flowChange = [given |-> FALSE, nodes |-> <<>>, edges |-> {}]
    /\ NoSave
    /\ NoRequest

\* the events of the socket; the server sends messages while it is open
NextSocket ==
    \/ wsOnOpen /\ UNCHANGED now
    \/ /\ ws.readyState = "open"
       /\ \E ns \in BackendNodeLists :
             \E es \in SUBSET {Edge(a, b) : a, b \in IdsOf(ns)} : workflowUpdate(ns, es)
       /\ UNCHANGED now
    \/ ws.readyState = "open" /\ agentResponse /\ UNCHANGED now
    \/ /\ ws.readyState = "open"
       /\ \E status \in AgentStatus : agentStatusMessage(status)
       /\ UNCHANGED now
    \/ wsOnError /\ UNCHANGED now
    \/ wsOnClose /\ UNCHANGED now

\* every event the browser has queued is delivered
SpecSocket == InitSocket /\ [][NextSocket]_vars /\ WF_vars(NextSocket)

----------------------------------------------------------------------------
(* App.tsx: processTextWorkflow and the progress polling *)

\* String.prototype.trim on the texts of the input box
trim(text) ==
    CASE text = "   " -> ""
      [] text = " onboard staff " -> "onboard staff"
      [] OTHER -> text

\* processTextWorkflow up to its first await; the polling effect runs in the
\* render that follows and starts the interval, isProcessing and workflowId
\* being set
processTextWorkflow(textInput) ==
    IF trim(textInput) = ""
    THEN /\ lastOp' = [op |-> "processTextWorkflow", outcome |-> "returned"]
         /\ UNCHANGED <<nodes, edges, appVars, canvasVars, sideVars>>
    ELSE /\ processing' = [isProcessing |-> TRUE, workflowId |-> <<"workflow", now>>,
                           pc |-> "fetch", polling |-> TRUE]
         /\ lastOp' = [op |-> "processTextWorkflow", outcome |-> "started"]
         /\ UNCHANGED <<nodes, edges, appVars, canvasVars, sessionVars, saveVars, poll>>

\* fetch resolves with response.ok: on to await response.json()
responseOk ==
    /\ processing.pc = "fetch"
    /\ processing' = [processing EXCEPT !.pc = "json"]
    /\ lastOp' = [op |-> "response", outcome |-> "ok"]
    /\ UNCHANGED <<nodes, edges, appVars, canvasVars, sessionVars, saveVars, poll>>

\* a handler of the failure paths that skips the finally block
requestFailsNoFinally ==
    /\ processing.pc \in {"fetch", "json"}
    /\ processing' = [processing EXCEPT !.pc = "idle"]
    /\ lastOp' = [op |-> "response", outcome |-> "error"]
    /\ UNCHANGED <<nodes, edges, appVars, canvasVars, sessionVars, saveVars, poll>>

\* fetch rejects, the response is not ok, or response.json() rejects: the
\* catch block, then the finally block; the polling effect's cleanup clears
\* the interval
requestFails ==
    /\ processing.pc \in {"fetch", "json"}
    /\ processing' = NotProcessing
    /\ lastOp' = [op |-> "response", outcome |-> "error"]
    /\ UNCHANGED <<nodes, edges, appVars, canvasVars, sessionVars, saveVars, poll>>

\* response.json() resolves: the nodes of the result are arranged and put
\* on the canvas with the edges, then the finally block
requestSucceeds(resultNodes, resultEdges) ==
    /\ processing.pc = "json"
    /\ nodes' = arrangeNodesIntelligently(resultNodes)
    /\ edges' = resultEdges
    /\ allPositions' = PositionsOf(nodes')
    /\ processing' = NotProcessing
    /\ lastOp' = [op |-> "response", outcome |-> "generated"]
    /\ UNCHANGED <<selectedNodes, pendingPositions, canvasVars, sessionVars, modalVars,
                   localStorage, poll>>
    /\ autosaveEffect

\* pollProgress, the callback of the polling interval
pollProgress ==
    /\ processing.polling
    /\ lastOp' = [op |-> "pollProgress", workflowId |-> processing.workflowId]
    /\ UNCHANGED <<nodes, edges, appVars, canvasVars, sideVars>>

----------------------------------------------------------------------------
(* Specification SpecRequest: workflow generation from the text box *)

\* the promise the handler awaits settles
Settles ==
    \/ responseOk /\ UNCHANGED now
    \/ requestFails /\ UNCHANGED now
    \/ /\ \E resultNodes \in BackendNodeLists,
             resultEdges \in {{}, {[source |-> <<"step", 1, 0>>, target |-> <<"step", 2, 0>>]}} :
             requestSucceeds(resultNodes, resultEdges)
       /\ UNCHANGED now

\* the Generate button is disabled while isProcessing or while the text is
\* blank; a click with a blank text is the handler's own guard
NextRequest ==
    \/ Tick
    \/ /\ ~processing.isProcessing
       /\ \E textInput \in {"   ", " onboard staff "} : processTextWorkflow(textInput)
       /\ UNCHANGED now
    \/ Settles
    \/ pollProgress /\ UNCHANGED now

\* fetch and response.json() return promises that settle
SpecRequest == Init /\ [][NextRequest]_vars /\ WF_vars(Settles)

----------------------------------------------------------------------------
(* OpenHandsApiClient.waitForCompletion *)

maxAttempts == 30

\* the request of one loop turn has settled: makeRequest returned the
\* conversation with the given status, or threw
conversationPolled(status) ==
    /\ poll.pc = "request"
    /\ poll' = [poll EXCEPT
                  !.polls = poll.polls + 1,
                  !.pc = CASE status = "completed" -> "returned"
                           [] status \in {"failed", "unreachable"} -> "threw"
                           [] OTHER -> "sleep",
                  !.error = CASE status = "failed" -> "OpenHands task failed"
                              [] status = "unreachable" -> "Failed to connect to OpenHands"
                              [] OTHER -> None]
    /\ lastOp' = [op |-> "poll", status |-> status]
    /\ UNCHANGED <<nodes, edges, now, appVars, canvasVars, sessionVars, saveVars, processing>>

\* a loop that goes on while attempts <= maxAttempts
sleepOverInclusive ==
    /\ poll.pc = "sleep"
    /\ poll' = [poll EXCEPT
                  !.attempts = poll.attempts + 1,
                  !.pc = IF poll.attempts + 1 <= maxAttempts THEN "request" ELSE "threw",
                  !.error = IF poll.attempts + 1 <= maxAttempts
                            THEN None ELSE "OpenHands task timed out"]
    /\ lastOp' = [op |-> "sleep"]
    /\ UNCHANGED <<nodes, edges, now, appVars, canvasVars, sessionVars, saveVars, processing>>

\* the 10 s timeout has passed: attempts++, then the loop condition, then
\* the throw after the loop
sleepOver ==
    /\ poll.pc = "sleep"
    /\ poll' = [poll EXCEPT
                  !.attempts = poll.attempts + 1,
                  !.pc = IF poll.attempts + 1 < maxAttempts THEN "request" ELSE "threw",
                  !.error = IF poll.attempts + 1 < maxAttempts
                            THEN None ELSE "OpenHands task timed out"]
    /\ lastOp' = [op |-> "sleep"]
    /\ UNCHANGED <<nodes, edges, now, appVars, canvasVars, sessionVars, saveVars, processing>>

----------------------------------------------------------------------------
(* Specification SpecWait: one call of waitForCompletion *)

\* the call has entered the loop: attempts = 0 < maxAttempts, first request
\* under way
InitWait ==
    /\ nodes = <<>>
    /\ edges = {}
    /\ now = 0
    /\ lastOp = [op |-> "waitForCompletion"]
    /\ NoSelection
    /\ NoSession
    /\ NoSave
    /\ processing = NotProcessing
    /\ poll = [pc |-> "request", attempts |-> 0, polls |-> 0, error |-> None]

NextWait ==
    \/ \E status \in {"running", "completed", "failed", "unreachable"} :
          conversationPolled(status)
    \/ sleepOver

\* the awaited request settles and the awaited timeout fires
SpecWait == InitWait /\ [][NextWait]_vars /\ WF_vars(NextWait)

----------------------------------------------------------------------------
(* Schema translator: N8nWorkflowConverter (n8nConverter.ts).  The converter *)
(* reads this.nodes and this.edges as arrays: under SpecTranslate `edges` is *)
(* a sequence of [source, target] records.                                   *)

\* label.toLowerCase().includes(needle): the needle occurs as a substring of
\* the lower-cased label (toLowerCase is tabulated for the labels in use)
includes(label, needle) ==
    LET lower == CASE label = "Webhook Trigger" -> "webhook trigger"
                   [] label = "Daily Schedule" -> "daily schedule"
                   [] label = "Manual Start" -> "manual start"
                   [] label = "Send Email" -> "send email"
                   [] label = "Update Database" -> "update database"
                   [] label = "Call API" -> "call api"
                   [] label = "Ask LLM" -> "ask llm"
                   [] label = "Process Data" -> "process data"
                   [] label = "Validate Input" -> "validate input"
                   [] label = "Audit Log" -> "audit log"
                   [] label = "Notify Team" -> "notify team"
                   [] OTHER -> label
    IN  \E i \in 1..(Len(lower) - Len(needle) + 1) :
            SubSeq(lower, i, i + Len(needle) - 1) = needle

\* getN8nNodeType, over N8N_NODE_MAPPINGS
getN8nNodeType(node) ==
    CASE node.nodeType = "trigger" ->
            (CASE includes(node.label, "webhook") -> "n8n-nodes-base.webhook"
               [] includes(node.label, "schedule") -> "n8n-nodes-base.cron"
               [] OTHER -> "n8n-nodes-base.manualTrigger")
      [] node.nodeType = "action" ->
            (CASE includes(node.label, "llm") \/ includes(node.label, "ai")
                      \/ includes(node.label, "gpt") -> "n8n-nodes-base.openAi"
               [] includes(node.label, "email") -> "n8n-nodes-base.emailSend"
               [] includes(node.label, "database") \/ includes(node.label, "db") ->
                      "n8n-nodes-base.postgres"
               [] includes(node.label, "http") \/ includes(node.label, "api") ->
                      "n8n-nodes-base.httpRequest"
               [] OTHER -> "n8n-nodes-base.code")
      [] node.nodeType = "condition" -> "n8n-nodes-base.if"
      [] node.nodeType = "notification" -> "n8n-nodes-base.slack"
      [] OTHER -> "n8n-nodes-base.function"

getTriggerParameters(node) ==
    CASE includes(node.label, "webhook") ->
            [httpMethod |-> "POST", path |-> <<"nodex", node.id>>,
             responseMode |-> "onReceived"]
      [] includes(node.label, "schedule") -> [rule |-> "0 9 * * *"]
      [] OTHER -> [manual |-> TRUE]

getActionParameters(node) ==
    CASE includes(node.label, "llm") \/ includes(node.label, "ai")
              \/ includes(node.label, "gpt") ->
            [resource |-> "chat", operation |-> "create", model |-> "gpt-4"]
      [] includes(node.label, "email") ->
            [fromEmail |-> "noreply@example.com", toEmail |-> "user@example.com",
             subject |-> node.label, format |-> "html"]
      [] includes(node.label, "database") \/ includes(node.label, "db") ->
            [operation |-> "insert", schema |-> "public", table |-> "workflow_data"]
      [] includes(node.label, "http") \/ includes(node.label, "api") ->
            [method |-> "POST", url |-> "https://api.example.com/webhook", sendBody |-> TRUE]
      [] OTHER -> [functionCode |-> <<"process item", node.label>>]

getConditionParameters(node) ==
    [conditions |-> [value1 |-> "={{$json.status}}", operation |-> "equal",
                     value2 |-> "success"]]

getValidationParameters(node) == [functionCode |-> <<"field presence check", node.label>>]

\* a parameter switch without a default branch: a kind outside the four cases
\* gets no parameters
getNodeParametersStrict(node) ==
    CASE node.nodeType = "trigger" -> getTriggerParameters(node)
      [] node.nodeType = "action" -> getActionParameters(node)
      [] node.nodeType = "condition" -> getConditionParameters(node)
      [] node.nodeType = "validation" -> getValidationParameters(node)
      [] OTHER -> [none |-> TRUE]

getNodeParameters(node) ==
    CASE node.nodeType = "trigger" -> getTriggerParameters(node)
      [] node.nodeType = "action" -> getActionParameters(node)
      [] node.nodeType = "condition" -> getConditionParameters(node)
      [] node.nodeType = "validation" -> getValidationParameters(node)
      [] OTHER -> [functionCode |-> <<"return items", node.label>>]

\* convertNode; r is the value generateWebhookId draws
convertNode(node, r) ==
    LET webhook == node.nodeType = "trigger" /\ includes(node.label, "webhook")
    IN  [id |-> node.id,
         name |-> node.label,
         type |-> getN8nNodeType(node),
         typeVersion |-> 1,
         position |-> <<node.position.x, node.position.y>>,
         parameters |-> IF webhook
                        THEN [httpMethod |-> "POST", path |-> <<"nodex", node.id>>,
                              responseMode |-> "onReceived",
                              responseData |-> "Workflow triggered"]
                        ELSE getNodeParameters(node),
         webhookId |-> IF webhook THEN <<"nodex", r>> ELSE <<None>>]

\* a node list that keeps the first node of every label only
convertNodesByName(ns, rs) ==
    LET kept == {i \in 1..Len(ns) : \A j \in 1..(i - 1) : ns[j].label # ns[i].label}
        RECURSIVE From(_)
        From(k) ==
            IF k > Len(ns) THEN <<>>
            ELSE (IF k \in kept THEN <<convertNode(ns[k], rs[k])>> ELSE <<>>) \o From(k + 1)
    IN  From(1)

\* convertNodes: this.nodes.map(node => this.convertNode(node)); rs[i] is the
\* webhook id drawn for the i-th node
convertNodes(ns, rs) == [i \in 1..Len(ns) |-> convertNode(ns[i], rs[i])]

\* Array.prototype.find(n => n.id === id): the index of the first node with
\* the id, 0 when there is none
find(ns, id) ==
    IF \E i \in 1..Len(ns) : ns[i].id = id
    THEN CHOOSE i \in 1..Len(ns) :
            /\ ns[i].id = id
            /\ \A j \in 1..(i - 1) : ns[j].id # id
    ELSE 0

\* a connection map whose second lookup repeats the first: the successor is
\* searched by edge.source
convertConnectionsBySource(ns, es) ==
    LET RECURSIVE AddBySource(_, _)
        AddBySource(connections, k) ==
            IF k > Len(es) THEN connections
            ELSE LET sourceNode == find(ns, es[k].source)
                     targetNode == find(ns, es[k].source)
                 IN  IF sourceNode # 0 /\ find(ns, es[k].target) # 0
                     THEN AddBySource(
                            [connections EXCEPT ![ns[sourceNode].label] =
                                Append(@, [node |-> ns[targetNode].label, type |-> "main",
                                           index |-> 0])], k + 1)
                     ELSE AddBySource(connections, k + 1)
    IN  AddBySource([label \in {ns[i].label : i \in 1..Len(ns)} |-> <<>>], 1)

\* convertConnections: the map from a node label to main[0], the list of its
\* successors; every label is initialised to an empty list, then each edge
\* whose two ends are found pushes the target's label under the source's
convertConnections(ns, es) ==
    LET RECURSIVE AddEdges(_, _)
        AddEdges(connections, k) ==
            IF k > Len(es) THEN connections
            ELSE LET sourceNode == find(ns, es[k].source)
                     targetNode == find(ns, es[k].target)
                 IN  IF sourceNode # 0 /\ targetNode # 0
                     THEN AddEdges(
                            [connections EXCEPT ![ns[sourceNode].label] =
                                Append(@, [node |-> ns[targetNode].label, type |-> "main",
                                           index |-> 0])], k + 1)
                     ELSE AddEdges(connections, k + 1)
    IN  AddEdges([label \in {ns[i].label : i \in 1..Len(ns)} |-> <<>>], 1)

\* generateWorkflowName: the first trigger's label, or the default, and the date
generateWorkflowName(ns, date) ==
    IF \E i \in 1..Len(ns) : ns[i].nodeType = "trigger"
    THEN <<ns[CHOOSE i \in 1..Len(ns) :
                /\ ns[i].nodeType = "trigger"
                /\ \A j \in 1..(i - 1) : ns[j].nodeType # "trigger"].label, date>>
    ELSE <<"Nodex Workflow", date>>

\* convert()
convert(ns, es, rs, date) ==
    [name |-> generateWorkflowName(ns, date),
     nodes |-> convertNodes(ns, rs),
     connections |-> convertConnections(ns, es),
     active |-> FALSE,
     settings |-> [executionOrder |-> "v1"]]

\* getRequiredCredentials: one push per node and keyword, in node order, then
\* Array.from(new Set(credentials)) keeps the first occurrence of each
getRequiredCredentials(ns) ==
    LET of(node) ==
            (IF includes(node.label, "llm") \/ includes(node.label, "ai")
                  \/ includes(node.label, "gpt")
             THEN <<"OpenAI API Key">> ELSE <<>>)
              \o (IF includes(node.label, "email")
                  THEN <<"SMTP/Email Credentials">> ELSE <<>>)
              \o (IF includes(node.label, "database")
                  THEN <<"Database Connection">> ELSE <<>>)
        RECURSIVE Pushed(_)
        Pushed(k) == IF k > Len(ns) THEN <<>> ELSE of(ns[k]) \o Pushed(k + 1)
        RECURSIVE Unique(_, _)
        Unique(seen, rest) ==
            IF rest = <<>> THEN seen
            ELSE IF \E i \in 1..Len(seen) : seen[i] = Head(rest)
            THEN Unique(seen, Tail(rest))
            ELSE Unique(Append(seen, Head(rest)), Tail(rest))
    IN  Unique(<<>>, Pushed(1))

\* generateTestEndpoints: filter the webhook triggers, map each to an endpoint
generateTestEndpoints(ns) ==
    LET isWebhook(n) == n.nodeType = "trigger" /\ includes(n.label, "webhook")
        webhookNodes == SelectSeq(ns, isWebhook)
    IN  [k \in 1..Len(webhookNodes) |->
            [method |-> "POST",
             url |-> <<"http://localhost:5678/webhook/nodex", webhookNodes[k].id>>,
             description |-> webhookNodes[k].label]]

\* generateDeploymentInstructions: the workflow, and the two lists of the
\* instructions that are computed from the graph
generateDeploymentInstructions(ns, es, rs, date) ==
    [workflow |-> convert(ns, es, rs, date),
     credentials |-> getRequiredCredentials(ns),
     testEndpoints |-> generateTestEndpoints(ns)]

----------------------------------------------------------------------------
(* Specification SpecTranslate: convert() applied to an arbitrary graph *)

\* kinds and labels of the graphs handed to the translator: a webhook
\* trigger, two actions, and a kind the converter does not know that repeats
\* a label
TranslateKinds ==
    {[nodeType |-> "trigger", label |-> "Webhook Trigger"],
     [nodeType |-> "action", label |-> "Send Email"],
     [nodeType |-> "action", label |-> "Process Data"],
     [nodeType |-> "approval", label |-> "Process Data"]}

\* edge ends: the ids of the nodes, and ids that no node has (0, and the ids
\* beyond the node list)
TranslateEdges ==
    UNION {[1..m -> {Edge(<<"node", st[1], 0>>, <<"node", st[2], 0>>) :
                        st \in (0..MaxGraph) \X (0..MaxGraph)}] : m \in 0..MaxConn}

InitTranslate ==
    /\ \E n \in 0..MaxGraph : \E kinds \in [1..n -> TranslateKinds] :
          nodes = [i \in 1..n |->
                      MkNode(<<"node", i, 0>>, kinds[i].nodeType, kinds[i].label, FALSE, None,
                             Pos(i * 200000, 100000))]
    /\ edges \in TranslateEdges
    /\ now = 0
    /\ lastOp = [op |-> "init"]
    /\ Idle

\* convert() on the graph; rs are the values generateWebhookId draws
Convert ==
    /\ lastOp.op = "init"
    /\ \E rs \in [1..Len(nodes) -> 1..MaxRandom] :
          lastOp' = [op |-> "convert", workflow |-> convert(nodes, edges, rs, now)]
    /\ UNCHANGED <<nodes, edges, now, appVars, canvasVars, sideVars>>

SpecTranslate == InitTranslate /\ [][Convert]_vars

----------------------------------------------------------------------------
(* Specification SpecDeploy: convertToN8n on graphs that cover every kind   *)
(* and every label keyword of the converter                                 *)

\* the three triggers, an action for every keyword branch and one for the
\* default, the three fixed-template kinds, and a kind outside the six
DeployKinds ==
    {[nodeType |-> "trigger", label |-> "Webhook Trigger"],
     [nodeType |-> "trigger", label |-> "Daily Schedule"],
     [nodeType |-> "trigger", label |-> "Manual Start"],
     [nodeType |-> "action", label |-> "Send Email"],
     [nodeType |-> "action", label |-> "Update Database"],
     [nodeType |-> "action", label |-> "Call API"],
     [nodeType |-> "action", label |-> "Ask LLM"],
     [nodeType |-> "action", label |-> "Process Data"],
     [nodeType |-> "validation", label |-> "Validate Input"],
     [nodeType |-> "audit", label |-> "Audit Log"],
     [nodeType |-> "notification", label |-> "Notify Team"],
     [nodeType |-> "approval", label |-> "Process Data"]}

\* a chain of up to MaxDeploy nodes
InitDeploy ==
    /\ \E n \in 0..MaxDeploy : \E kinds \in [1..n -> DeployKinds] :
          /\ nodes = [i \in 1..n |->
                        MkNode(<<"node", i, 0>>, kinds[i].nodeType, kinds[i].label, FALSE,
                               None, Pos(i * 200000, 100000))]
          /\ edges = [i \in 1..(n - 1) |-> Edge(<<"node", i, 0>>, <<"node", i + 1, 0>>)]
    /\ now = 0
    /\ lastOp = [op |-> "init"]
    /\ Idle

\* convertToN8n(nodes, edges)
Deploy ==
    /\ lastOp.op = "init"
    /\ \E rs \in [1..Len(nodes) -> 1..MaxRandom] :
          lastOp' = [op |-> "convertToN8n"]
                      @@ generateDeploymentInstructions(nodes, edges, rs, now)
    /\ UNCHANGED <<nodes, edges, now, appVars, canvasVars, sideVars>>

SpecDeploy == InitDeploy /\ [][Deploy]_vars

----------------------------------------------------------------------------
(* Geometry of the claims *)

\* the rectangles at p and q, each grown by d on every side, do not intersect
ExpandedDisjoint(p, q, d) ==
    \/ p.x + nodeWidth + d <= q.x - d
    \/ q.x + nodeWidth + d <= p.x - d
    \/ p.y + nodeHeight + d <= q.y - d
    \/ q.y + nodeHeight + d <= p.y - d

\* C1: after a full rearrangement no two nodes' rectangles, each expanded by
\* minSpacing (10 px) on every side, intersect, for every mix of trigger,
\* action, other, output and locked nodes.
C1_NoOverlapAfterArrange ==
    lastOp.op = "arrangeNodesIntelligently" =>
        \A i, j \in 1..Len(nodes) :
            i < j => ExpandedDisjoint(nodes[i].position, nodes[j].position, minSpacing)

\* the 150x80 rectangles at p and q keep a gap of at least minSpacing in at
\* least one axis
KeepsGap(p, q) ==
    \/ p.x + nodeWidth + minSpacing <= q.x
    \/ q.x + nodeWidth + minSpacing <= p.x
    \/ p.y + nodeHeight + minSpacing <= q.y
    \/ q.y + nodeHeight + minSpacing <= p.y

PlacingOps == {"addPrebuiltNode", "autoFixWorkflow"}

\* a step in which a placement handler added nodes
PlacementStep == nodes' # nodes /\ lastOp'.op \in PlacingOps

\* C4: whenever findFreePosition returns a position, the rectangle at that
\* position keeps a gap of at least minSpacing in at least one axis from the
\* rectangle of every node already on the canvas, whichever stage produced it.
C4_ReturnedPositionKeepsGap ==
    [][PlacementStep =>
        \A k \in 1..Len(lastOp'.placed), m \in 1..Len(nodes) :
            KeepsGap(lastOp'.placed[k], nodes[m].position)]_vars

\* C5: a position findFreePosition accepted as free does not collide with a
\* node placed just before it: by the same handler (the trigger and the
\* validation node of one autoFixWorkflow call) or by the handler that ran
\* right before (two addPrebuiltNode calls in succession).
C5_SecondPlacementAvoidsFirst ==
    [][PlacementStep =>
        /\ \A i, j \in 1..Len(lastOp'.placed) :
              (i < j /\ lastOp'.stages[j] # "random")
                  => KeepsGap(lastOp'.placed[i], lastOp'.placed[j])
        /\ lastOp.op \in PlacingOps =>
              \A i \in 1..Len(lastOp.placed), j \in 1..Len(lastOp'.placed) :
                  lastOp'.stages[j] # "random"
                      => KeepsGap(lastOp.placed[i], lastOp'.placed[j])]_vars

\* the handlers that replace the whole graph
ReplacingOps == {"clearCanvas", "loadTemplate", "workflow_update", "clearWorkflow"}

\* the node with this id is on the canvas and locked
LockedOnCanvas(ns, id) == \E i \in 1..Len(ns) : ns[i].id = id /\ ns[i].locked

\* C2: a locked node that is on the canvas stays on the canvas across every
\* ordinary edit; only a handler that replaces the whole graph removes it.
C2_LockedNodeStays ==
    [][lastOp'.op \notin ReplacingOps =>
        \A i \in 1..Len(nodes) :
            nodes[i].locked => LockedOnCanvas(nodes', nodes[i].id)]_vars

\* the ids a delete request targets: the selection for deleteSelectedNodes
\* and the key handler, the node of the context menu for handleDelete
DeleteTargets ==
    selectedNodes \cup (IF contextMenu.show THEN {contextMenu.node.id} ELSE {})

\* C3: a delete request whose target set contains at least one locked node
\* is rejected: the node set, the edge set and the selection are afterwards
\* exactly what they were before.
C3_LockedDeleteRejected ==
    [][(/\ lastOp'.op \in {"deleteSelectedNodes", "handleKeyDown", "handleDelete"}
        /\ \E id \in DeleteTargets : LockedOnCanvas(nodes, id))
        => /\ nodes' = nodes
           /\ edges' = edges
           /\ selectedNodes' = selectedNodes
           /\ selectedNode' = selectedNode]_vars

\* C6: enforce(enforce(G, R), R) = enforce(G, R): an enforcement pass that
\* directly follows an enforcement pass adds no node and no edge.
C6_EnforceIdempotent ==
    [][(lastOp.op = "enforce" /\ lastOp'.op = "enforce")
        => /\ nodes' = nodes
           /\ edges' = edges
           /\ lastOp'.nodesAdded = 0]_vars

\* a second pass has run on a graph into which the first pass injected a node
C6_Witness ==
    /\ lastOp.op = "enforce"
    /\ lastOp.previous = "enforce"
    /\ \E i \in 1..Len(nodes) : nodes[i].id[1] = "compliance"

C8_Coverage ==
    (lastOp.op = "enforce" /\ lastOp.outcome = "accepted")
        => \A k \in 1..Len(RuleSet(lastOp.domain)) :
              \E i \in 1..Len(nodes) :
                  /\ Matches(nodes[i], RuleSet(lastOp.domain)[k])
                  /\ nodes[i].locked
                  /\ nodes[i].complianceReason = RuleSet(lastOp.domain)[k].reason

\* C9: translation conserves nodes: the translated node list has exactly as
\* many entries as the graph has nodes, one per input node id.
C9_NodeConservation ==
    lastOp.op = "convert"
        => /\ Len(lastOp.workflow.nodes) = Len(nodes)
           /\ \A i \in 1..Len(nodes) :
                 Cardinality({j \in 1..Len(lastOp.workflow.nodes) :
                                 lastOp.workflow.nodes[j].id = nodes[i].id}) = 1

\* a graph with a repeated label and an unrecognized kind has been translated
C9_Witness ==
    /\ lastOp.op = "convert"
    /\ \E i, j \in 1..Len(nodes) : i # j /\ nodes[i].label = nodes[j].label
    /\ \E i \in 1..Len(nodes) : nodes[i].nodeType = "approval"

\* C10: for every edge whose source and target are both nodes of the graph,
\* the connection map lists the target node's name in the list stored under
\* the source node's name.
C10_InternalEdgesListed ==
    lastOp.op = "convert"
        => \A k \in 1..Len(edges) : \A i, j \in 1..Len(nodes) :
              (nodes[i].id = edges[k].source /\ nodes[j].id = edges[k].target)
                => /\ nodes[i].label \in DOMAIN lastOp.workflow.connections
                   /\ \E m \in 1..Len(lastOp.workflow.connections[nodes[i].label]) :
                         lastOp.workflow.connections[nodes[i].label][m].node = nodes[j].label

\* a graph with an internal edge between differently named nodes, and an
\* edge that leaves the graph, has been translated
C10_Witness ==
    /\ lastOp.op = "convert"
    /\ \E k \in 1..Len(edges) : \E i, j \in 1..Len(nodes) :
          /\ nodes[i].id = edges[k].source
          /\ nodes[j].id = edges[k].target
          /\ nodes[i].label # nodes[j].label
    /\ \E k \in 1..Len(edges) : edges[k].target \notin IdsOf(nodes)

\* C11: for an action node the label keyword selects the external type and
\* the parameter template, the keywords read in the order email, database or
\* db, http or api, ai or llm: email type with SMTP-style fields, database
\* type with table fields, HTTP request type with request fields, model type
\* with model fields, and the generic scriptable template for none of them.
C11_ActionKeywordSelectsTemplate ==
    lastOp.op = "convertToN8n" =>
        \A i \in 1..Len(nodes) :
            nodes[i].nodeType = "action" =>
                LET label == nodes[i].label
                    out == lastOp.workflow.nodes[i]
                    fields == DOMAIN out.parameters
                IN  CASE includes(label, "email") ->
                            out.type = "n8n-nodes-base.emailSend" /\ "fromEmail" \in fields
                      [] includes(label, "database") \/ includes(label, "db") ->
                            out.type = "n8n-nodes-base.postgres" /\ "table" \in fields
                      [] includes(label, "http") \/ includes(label, "api") ->
                            out.type = "n8n-nodes-base.httpRequest" /\ "url" \in fields
                      [] includes(label, "ai") \/ includes(label, "llm") ->
                            out.type = "n8n-nodes-base.openAi" /\ "model" \in fields
                      [] OTHER ->
                            out.type = "n8n-nodes-base.code" /\ "functionCode" \in fields

\* C18: the example invocation endpoints hold one entry for every trigger
\* node of the graph, webhook, schedule or manual.
C18_EndpointPerTrigger ==
    lastOp.op = "convertToN8n" =>
        \A i \in 1..Len(nodes) :
            nodes[i].nodeType = "trigger" =>
                Cardinality({k \in 1..Len(lastOp.testEndpoints) :
                                lastOp.testEndpoints[k].url[2] = nodes[i].id}) = 1

\* C19: validation, audit and notification nodes each get a fixed template
\* of their own; none of them is emitted with the generic pass-through
\* parameters.
C19_FixedTemplates ==
    lastOp.op = "convertToN8n" =>
        \A i \in 1..Len(nodes) :
            nodes[i].nodeType \in {"validation", "audit", "notification"} =>
                lastOp.workflow.nodes[i].parameters
                    # [functionCode |-> <<"return items", nodes[i].label>>]

\* C20: a node whose kind is none of the recognized kinds is emitted with the
\* generic function type and the generic parameters, and the node list and
\* the connection map of the whole graph are produced all the same.
C20_UnknownKindFallsBack ==
    lastOp.op = "convertToN8n" =>
        /\ Len(lastOp.workflow.nodes) = Len(nodes)
        /\ DOMAIN lastOp.workflow.connections = {nodes[i].label : i \in 1..Len(nodes)}
        /\ \A i \in 1..Len(nodes) :
              nodes[i].nodeType \notin {"trigger", "action", "condition", "validation",
                                        "notification", "audit"}
                => /\ lastOp.workflow.nodes[i].type = "n8n-nodes-base.function"
                   /\ lastOp.workflow.nodes[i].parameters
                        = [functionCode |-> <<"return items", nodes[i].label>>]

\* a graph with a node of an unrecognized kind next to a recognized one has
\* been translated
C20_Witness ==
    /\ lastOp.op = "convertToN8n"
    /\ \E i, j \in 1..Len(nodes) :
          /\ nodes[i].nodeType = "approval"
          /\ nodes[j].nodeType = "action"
          /\ lastOp.workflow.nodes[i].type = "n8n-nodes-base.function"

\* C12: the label of a locked node never changes through the edit layer: a
\* rename attempt on a locked node (node-details update or change-type) is
\* rejected, the node's label after the attempt equals its label before it.
C12_LockedLabelKept ==
    [][lastOp'.op \in {"updateNodeDetails", "changeNodeType", "handleChangeType"} =>
        \A i \in 1..Len(nodes) :
            nodes[i].locked => nodes'[i].label = nodes[i].label]_vars

\* C13: an incoming graph with a dangling edge reference, a duplicate node
\* id or a self-loop is rejected wholesale: after a workflow_update message
\* the canvas holds a graph that validates, or the graph it held before.
C13_InvalidGraphRejected ==
    [][lastOp'.op = "workflow_update" =>
        \/ validate(nodes', edges')
        \/ nodes' = nodes /\ edges' = edges]_vars

\* C14: in every canvas state reached by node creation, connection, deletion
\* and template loading, both endpoints of every edge are nodes of the graph.
C14_EdgesReferenceNodes ==
    \A e \in edges : e.source \in IdsOf(nodes) /\ e.target \in IdsOf(nodes)

\* a node of the loaded template has been deleted together with its edge
C14_Witness ==
    /\ lastOp.op \in {"deleteSelectedNodes", "handleKeyDown"}
    /\ lastOp.outcome = "deleted"
    /\ Len(nodes) = 3
    /\ Cardinality(edges) = 2

\* C15: no edge has the same node as source and as target in any canvas
\* state: a connect request from a node to itself never adds an edge.
C15_NoSelfLoop ==
    \A e \in edges : e.source # e.target

\* C16: node ids are unique within the graph in every canvas state, also
\* after two creations of the same template within one millisecond.
C16_UniqueIds ==
    \A i, j \in 1..Len(nodes) : nodes[i].id = nodes[j].id => i = j

\* C17: in every canvas state every node with locked = true carries a
\* non-empty compliance reason, whichever operation created it.
C17_LockedHasReason ==
    \A i \in 1..Len(nodes) : nodes[i].locked => nodes[i].compliance_reason # None

C22_LockedColumnRightOfAll ==
    lastOp.op = "arrangeNodesIntelligently" =>
        \A i, j \in 1..Len(nodes) :
            nodes[i].locked =>
                IF nodes[j].locked
                THEN nodes[j].position.x = nodes[i].position.x
                ELSE nodes[j].position.x + nodeWidth < nodes[i].position.x

\* C24: the translated connection map has exactly one key per input node;
\* the successor lists of two distinct nodes are never merged under one key,
\* also when two nodes carry the same label.
C24_OneKeyPerNode ==
    lastOp.op = "convert" =>
        Cardinality(DOMAIN lastOp.workflow.connections) = Len(nodes)

\* C27: the required-credentials list agrees with the translated node types:
\* a credential is listed if and only if some node of the graph was translated
\* to the external type that needs it (OpenAI key: openAi, SMTP/email
\* credentials: emailSend, database connection: postgres).
C27_CredentialsMatchTypes ==
    lastOp.op = "convertToN8n" =>
        LET listed(c) == \E k \in 1..Len(lastOp.credentials) : lastOp.credentials[k] = c
            translated(t) ==
                \E i \in 1..Len(lastOp.workflow.nodes) : lastOp.workflow.nodes[i].type = t
        IN  /\ listed("OpenAI API Key") <=> translated("n8n-nodes-base.openAi")
            /\ listed("SMTP/Email Credentials") <=> translated("n8n-nodes-base.emailSend")
            /\ listed("Database Connection") <=> translated("n8n-nodes-base.postgres")

\* C28: autoFixWorkflow is idempotent: run a second time on the graph its
\* first run produced, it adds no node and no edge.
C28_AutoFixIdempotent ==
    [][(lastOp.op = "autoFixWorkflow" /\ lastOp'.op = "autoFixWorkflow")
          => (nodes' = nodes /\ edges' = edges /\ lastOp'.placed = <<>>)]_vars

\* the second of two runs in a row, after a first run that added both nodes
C28_Witness ==
    /\ lastOp.op = "autoFixWorkflow"
    /\ lastOp.placed = <<>>
    /\ now = 2
    /\ Len(nodes) = 3
    /\ nodes[1].id = <<"trigger", 0, 0>>
    /\ nodes[3].id = <<"validation", 0, 0>>

\* C23: after the socket has closed or errored while the canvas is mounted,
\* a new connection is eventually opened without user action.
C23_Reconnects ==
    (ws.readyState \in {"failed", "closed"}) ~> (ws.readyState \in {"connecting", "open"})

\* C25: every (nodes, edges) pair handed to onFlowChange is a consistent
\* graph: no edge of the pair references a node id absent from the pair's
\* node list, whichever edit operation handed it.
C25_HandedPairConsistent ==
    flowChange.given =>
        \A e \in flowChange.edges :
            e.source \in IdsOf(flowChange.nodes) /\ e.target \in IdsOf(flowChange.nodes)

\* C26: whenever the canvas has been left unchanged for 500 ms with the edit
\* modal closed (the autosave timeout of the last change has run), the stored
\* workflow equals the canvas, and nothing is stored when the canvas is empty.
C26_StoredEqualsCanvas ==
    (~saveTimer /\ ~showEditModal) =>
        IF Len(nodes) = 0 /\ edges = {}
        THEN ~localStorage.stored
        ELSE localStorage = [stored |-> TRUE, nodes |-> nodes, edges |-> edges]

\* C29: every started workflow-generation request eventually ends with
\* isProcessing false and workflowId empty, whether it succeeds, gets a non-OK
\* status or throws, and progress polling runs only while isProcessing is true.
C29_RequestEnds ==
    /\ (processing.pc # "idle")
          ~> (processing.pc = "idle" /\ ~processing.isProcessing
                /\ processing.workflowId = <<>>)
    /\ [](processing.pc = "idle" => ~processing.isProcessing /\ processing.workflowId = <<>>)
    /\ [](processing.polling => processing.isProcessing)

\* a request that ended in the catch block, a later one that put a graph on
\* the canvas
C29_Witness ==
    /\ lastOp.op = "response"
    /\ lastOp.outcome = "generated"
    /\ Len(nodes) = 2
    /\ now = 1
    /\ ~processing.isProcessing
    /\ processing.workflowId = <<>>
    /\ ~processing.polling

\* C30: waitForCompletion terminates within 30 status polls: it returns as
\* soon as a poll reports 'completed', throws as soon as a poll reports
\* 'failed', and throws the timeout error after the 30th poll if neither was
\* reported.
C30_TerminatesWithin30Polls ==
    /\ <>(poll.pc \in {"returned", "threw"})
    /\ [](poll.polls <= 30)
    /\ [][lastOp'.op = "poll" =>
            /\ lastOp'.status = "completed" => poll'.pc = "returned"
            /\ lastOp'.status = "failed" =>
                  poll'.pc = "threw" /\ poll'.error = "OpenHands task failed"]_vars
    /\ [](poll.error = "OpenHands task timed out" => poll.pc = "threw" /\ poll.polls = 30)
    /\ []((poll.polls = 30 /\ lastOp.op = "sleep") =>
              poll.pc = "threw" /\ poll.error = "OpenHands task timed out")

\* thirty polls that reported neither status, then the timeout error
C30_Witness ==
    /\ poll.pc = "threw"
    /\ poll.error = "OpenHands task timed out"
    /\ poll.polls = 30
    /\ poll.attempts = 30

====
